---- MODULE Spec2Model ----
(***************************************************************************)
(* A model of the IdealQuery / OptiQuery backend: the logical plan         *)
(* algebra (a heap of plan nodes, predicates, expressions and metadata     *)
(* maps reached through pointers), the rule-based and the cost-based       *)
(* optimizer, the catalog with its readers/writer lock, and the global     *)
(* node id counter.                                                        *)
(*                                                                         *)
(* Go pointers are heap addresses (positive integers, NULL = 0); a Go      *)
(* struct reached through a pointer is a heap cell; a struct or slice held *)
(* by value is a field of the cell that holds it.  Node ids "node_<n>" are *)
(* the integers n.  Costs (float64 in the code) are integers in units of   *)
(* 1/1000; selectivities are integers in percent.                          *)
(***************************************************************************)
EXTENDS Integers, Sequences, FiniteSets, TLC

VARIABLES
    heap,       \* the Go heap of plan objects: heap[a] is the cell at address a
    idCounter,  \* logical_plan.idCounter
    input,      \* address of the root of the request's plan
    call,       \* the last call made on the plan and what it returned
    snapIn,     \* deep value of the input tree when the call was made
    snapOut,    \* deep value of the returned tree when the call returned
    writes,     \* number of writes callers have made after the call
    gen         \* the goroutines inside generateID: position, register, ids

planVars == <<heap, idCounter, input, call, snapIn, snapOut, writes, gen>>

VARIABLES
    tables,     \* CatalogManager.tables: table name -> address of its TableSchema
    schemas,    \* the TableSchema objects: schemas[a] is the one at address a
    arrays,     \* the backing arrays of the Columns slices
    mu,         \* CatalogManager.mu
    proc,       \* the request goroutines: position, arguments, locals, result
    issued,     \* number of catalog requests received so far
    versions    \* per table, the records its completed writes left, in order

catVars == <<tables, schemas, arrays, mu, proc, issued, versions>>

vars == <<planVars, catVars>>

NULL == 0

\* x := v; K(x): v is evaluated before the body that uses it.
Let(v, K(_)) == CHOOSE r \in {K(x) : x \in {v}} : TRUE

\* ---------------------------------------------------------------- bounds

MaxNodes == 4        \* input plans have at most this many operator nodes
MaxWrites == 1       \* writes a caller makes to a tree after a call

\* ------------------------------------------------------- plan algebra

Tables == {"a", "b"}

\* An allocator state: the heap and the id counter, threaded through every
\* operation as Go threads them through memory.
Alloc(st, obj) ==
    [st |-> [st EXCEPT !.h = Append(@, obj)], ref |-> Len(st.h) + 1]

generateID(st) ==
    [st |-> [st EXCEPT !.idc = @ + 1], id |-> st.idc + 1]

NewExpression(type, value, left, right, args) ==
    [k |-> "expr", Type |-> type, Value |-> value, Left |-> left,
     Right |-> right, Args |-> args, DataType |-> ""]

NewMap(m) == [k |-> "map", m |-> m]

EmptyMap == [x \in {} |-> ""]

\* A LogicalPlan with every payload field at its zero value.
LogicalPlan(id, nodeType, children, metadata) ==
    [k |-> "plan", ID |-> id, NodeType |-> nodeType, Children |-> children,
     TableName |-> "", Alias |-> "", Predicate |-> NULL,
     Projections |-> <<>>, JoinType |-> "", JoinCondition |-> NULL,
     GroupBy |-> <<>>, Aggregates |-> <<>>, OrderBy |-> <<>>,
     LimitCount |-> NULL, OffsetCount |-> NULL,
     EstimatedRows |-> NULL, EstimatedCost |-> NULL, Metadata |-> metadata]

\* The constructors: generateID(), then make(map), then the node itself.
NewNode(st, nodeType, children) ==
    Let(generateID(st), LAMBDA g :
    Let(Alloc(g.st, NewMap(EmptyMap)), LAMBDA m :
    Alloc(m.st, LogicalPlan(g.id, nodeType, children, m.ref))))

SetField(r, f, v) == [r EXCEPT !.st.h[r.ref][f] = v]

NewScanNode(st, tableName, alias) ==
    SetField(SetField(NewNode(st, "scan", <<>>), "TableName", tableName),
             "Alias", alias)

NewFilterNode(st, child, predicate) ==
    SetField(NewNode(st, "filter", <<child>>), "Predicate", predicate)

NewProjectNode(st, child, projections) ==
    SetField(NewNode(st, "project", <<child>>), "Projections", projections)

NewJoinNode(st, left, right, joinType, condition) ==
    SetField(SetField(NewNode(st, "join", <<left, right>>), "JoinType", joinType),
             "JoinCondition", condition)

NewAggregateNode(st, child, groupBy, aggregates) ==
    SetField(SetField(NewNode(st, "aggregate", <<child>>), "GroupBy", groupBy),
             "Aggregates", aggregates)

NewSortNode(st, child, orderBy) ==
    SetField(NewNode(st, "sort", <<child>>), "OrderBy", orderBy)

NewLimitNode(st, child, limit, offset) ==
    SetField(SetField(NewNode(st, "limit", <<child>>), "LimitCount", limit),
             "OffsetCount", offset)

NewColumnExpression(st, table, column) ==
    Alloc(st, NewExpression("column",
                            IF table # "" THEN table \o "." \o column ELSE column,
                            NULL, NULL, <<>>))

NewLiteralExpression(st, value) ==
    Alloc(st, NewExpression("literal", value, NULL, NULL, <<>>))

NewBinaryOpExpression(st, operator, left, right) ==
    Alloc(st, NewExpression("binary_op", operator, left, right, <<>>))

NewFunctionExpression(st, funcName, args) ==
    Alloc(st, NewExpression("function", funcName, NULL, NULL, args))

\* ------------------------------------------------ the request's plan

\* The shape of a request plan: operator, payload tag and child shapes.
Shape(t, arg, cs) == [t |-> t, arg |-> arg, cs |-> cs]

UnaryKinds ==
    { <<"filter", "=">>, <<"project", "*">>, <<"project", "name">>,
      <<"aggregate", "">>, <<"sort", "">>, <<"limit", "">> }

JoinKinds == {"inner", "left"}

RECURSIVE ShapesOfSize(_)
ShapesOfSize(n) ==
    IF n = 1
    THEN {Shape("scan", tb, <<>>) : tb \in Tables}
    ELSE {Shape(u[1], u[2], <<c>>) : u \in UnaryKinds, c \in ShapesOfSize(n - 1)}
         \cup UNION { {Shape("join", jt, <<l, r>>) :
                         jt \in JoinKinds,
                         l \in ShapesOfSize(i), r \in ShapesOfSize(n - 1 - i)}
                      : i \in 1..(n - 2) }

InputShapes == UNION {ShapesOfSize(n) : n \in 1..MaxNodes}

\* The payloads a parser attaches to the node it builds over the children cs.
BuildFilter(st, arg, cs) ==
    Let(NewColumnExpression(st, "", "x"), LAMBDA l :
    Let(NewLiteralExpression(l.st, "1"), LAMBDA r :
    Let(NewBinaryOpExpression(r.st, arg, l.ref, r.ref), LAMBDA e :
    Let(Alloc(e.st, [k |-> "pred", Expression |-> e.ref]), LAMBDA p :
    NewFilterNode(p.st, cs[1], p.ref)))))

BuildJoin(st, arg, cs) ==
    Let(NewColumnExpression(st, "l", "id"), LAMBDA l :
    Let(NewColumnExpression(l.st, "r", "id"), LAMBDA r :
    Let(Alloc(r.st, [k |-> "jc", Left |-> l.ref, Right |-> r.ref,
                     Operator |-> "="]), LAMBDA j :
    NewJoinNode(j.st, cs[1], cs[2], arg, j.ref))))

BuildAggregate(st, cs) ==
    Let(NewColumnExpression(st, "", "y"), LAMBDA e :
    NewAggregateNode(e.st, cs[1], <<>>,
        <<[Type |-> "count", Column |-> e.ref, Alias |-> "n"]>>))

BuildSort(st, cs) ==
    Let(NewColumnExpression(st, "", "z"), LAMBDA a :
    Let(NewFunctionExpression(a.st, "lower", <<a.ref>>), LAMBDA e :
    NewSortNode(e.st, cs[1], <<[Expression |-> e.ref, Ascending |-> TRUE]>>)))

BuildLimit(st, cs) ==
    Let(Alloc(st, [k |-> "val", v |-> 10]), LAMBDA v :
    NewLimitNode(v.st, cs[1], v.ref, NULL))

BuildNode(st, s, cs) ==
    CASE s.t = "scan" -> NewScanNode(st, s.arg, "")
      [] s.t = "filter" -> BuildFilter(st, s.arg, cs)
      [] s.t = "project" ->
            NewProjectNode(st, cs[1], <<[Table |-> "", Name |-> s.arg, Alias |-> ""]>>)
      [] s.t = "join" -> BuildJoin(st, s.arg, cs)
      [] s.t = "aggregate" -> BuildAggregate(st, cs)
      [] s.t = "sort" -> BuildSort(st, cs)
      [] s.t = "limit" -> BuildLimit(st, cs)

\* The plan a parser builds with the constructors, children first.
RECURSIVE Build(_, _), BuildChildren(_, _, _, _)
Build(st, s) ==
    Let(BuildChildren(st, s.cs, 1, <<>>), LAMBDA c : BuildNode(c.st, s, c.refs))

BuildChildren(st, shapes, i, acc) ==
    IF i > Len(shapes) THEN [st |-> st, refs |-> acc]
    ELSE Let(Build(st, shapes[i]), LAMBDA c :
         BuildChildren(c.st, shapes, i + 1, Append(acc, c.ref)))

\* --------------------------------------------------------------- Clone

RECURSIVE cloneExpression(_, _), cloneArgs(_, _, _, _)
cloneExpression(st, e) ==
    IF e = NULL THEN [st |-> st, ref |-> NULL]
    ELSE Let(cloneExpression(st, st.h[e].Left), LAMBDA l :
         Let(cloneExpression(l.st, st.h[e].Right), LAMBDA r :
         Let(Alloc(r.st, [st.h[e] EXCEPT !.Left = l.ref, !.Right = r.ref,
                                         !.Args = <<>>]), LAMBDA c :
         Let(cloneArgs(c.st, st.h[e].Args, 1, <<>>), LAMBDA as :
         [st |-> [as.st EXCEPT !.h[c.ref].Args = as.refs], ref |-> c.ref]))))

cloneArgs(st, args, i, acc) ==
    IF i > Len(args) THEN [st |-> st, refs |-> acc]
    ELSE Let(cloneExpression(st, args[i]), LAMBDA a :
         cloneArgs(a.st, args, i + 1, Append(acc, a.ref)))

clonePredicate(st, p) ==
    IF p = NULL THEN [st |-> st, ref |-> NULL]
    ELSE Let(cloneExpression(st, st.h[p].Expression), LAMBDA e :
         Alloc(e.st, [k |-> "pred", Expression |-> e.ref]))

cloneJoinCondition(st, jc) ==
    IF jc = NULL THEN [st |-> st, ref |-> NULL]
    ELSE Let(cloneExpression(st, st.h[jc].Left), LAMBDA l :
         Let(cloneExpression(l.st, st.h[jc].Right), LAMBDA r :
         Alloc(r.st, [k |-> "jc", Left |-> l.ref, Right |-> r.ref,
                      Operator |-> st.h[jc].Operator])))

\* copy(clone.Aggregates, lp.Aggregates) and copy(clone.OrderBy, lp.OrderBy):
\* the elements are copied by value, the *Expression in each is the same
\* address.
CopyAggregates(aggs) == [i \in DOMAIN aggs |-> aggs[i]]

CopyOrderBy(obs) == [i \in DOMAIN obs |-> obs[i]]

\* make(map) and the loop copying every key of lp.Metadata.
CloneMetadata(st, m) ==
    Alloc(st, NewMap(IF m = NULL THEN EmptyMap ELSE st.h[m].m))

\* The ID field of the clone.
CloneID(st, lp) == generateID(st)

\* The children the loop at the end of Clone visits.
ChildrenToClone(lp) == lp.Children

RECURSIVE Clone(_, _), CloneChildren(_, _, _, _)
Clone(st, a) ==
    Let(CloneID(st, st.h[a]), LAMBDA g :
    Let(clonePredicate(g.st, st.h[a].Predicate), LAMBDA p :
    Let(cloneJoinCondition(p.st, st.h[a].JoinCondition), LAMBDA j :
    Let(CloneMetadata(j.st, st.h[a].Metadata), LAMBDA m :
    Let(Alloc(m.st,
            [st.h[a] EXCEPT !.ID = g.id, !.Predicate = p.ref,
                            !.JoinCondition = j.ref, !.Metadata = m.ref,
                            !.Aggregates = CopyAggregates(@),
                            !.OrderBy = CopyOrderBy(@),
                            !.Children = <<>>]), LAMBDA n :
    Let(CloneChildren(n.st, ChildrenToClone(st.h[a]), 1, <<>>), LAMBDA cs :
    [st |-> [cs.st EXCEPT !.h[n.ref].Children = cs.refs], ref |-> n.ref]))))))

CloneChildren(st, children, i, acc) ==
    IF i > Len(children) THEN [st |-> st, refs |-> acc]
    ELSE Let(Clone(st, children[i]), LAMBDA c :
         CloneChildren(c.st, children, i + 1, Append(acc, c.ref)))

\* ------------------------------------------- values, signatures, reach

Nil == [nil |-> TRUE]

RECURSIVE DeepExpr(_, _)
DeepExpr(h, e) ==
    IF e = NULL THEN Nil
    ELSE [Type |-> h[e].Type, Value |-> h[e].Value, DataType |-> h[e].DataType,
          Left |-> DeepExpr(h, h[e].Left), Right |-> DeepExpr(h, h[e].Right),
          Args |-> [i \in DOMAIN h[e].Args |-> DeepExpr(h, h[e].Args[i])]]

DeepVal(h, v) == IF v = NULL THEN Nil ELSE [v |-> h[v].v]

\* The value of the tree rooted at a: every field of every node with the
\* pointers followed.
RECURSIVE DeepPlan(_, _)
DeepPlan(h, a) ==
    IF a = NULL THEN Nil
    ELSE LET n == h[a] IN
         [ID |-> n.ID, NodeType |-> n.NodeType,
          Children |-> [i \in DOMAIN n.Children |-> DeepPlan(h, n.Children[i])],
          TableName |-> n.TableName, Alias |-> n.Alias,
          Predicate |-> IF n.Predicate = NULL THEN Nil
                        ELSE [Expression |-> DeepExpr(h, h[n.Predicate].Expression)],
          Projections |-> n.Projections,
          JoinType |-> n.JoinType,
          JoinCondition |-> IF n.JoinCondition = NULL THEN Nil
                            ELSE [Left |-> DeepExpr(h, h[n.JoinCondition].Left),
                                  Right |-> DeepExpr(h, h[n.JoinCondition].Right),
                                  Operator |-> h[n.JoinCondition].Operator],
          GroupBy |-> n.GroupBy,
          Aggregates |-> [i \in DOMAIN n.Aggregates |->
                            [Type |-> n.Aggregates[i].Type,
                             Column |-> DeepExpr(h, n.Aggregates[i].Column),
                             Alias |-> n.Aggregates[i].Alias]],
          OrderBy |-> [i \in DOMAIN n.OrderBy |->
                            [Expression |-> DeepExpr(h, n.OrderBy[i].Expression),
                             Ascending |-> n.OrderBy[i].Ascending]],
          LimitCount |-> DeepVal(h, n.LimitCount),
          OffsetCount |-> DeepVal(h, n.OffsetCount),
          EstimatedRows |-> DeepVal(h, n.EstimatedRows),
          EstimatedCost |-> DeepVal(h, n.EstimatedCost),
          Metadata |-> IF n.Metadata = NULL THEN Nil ELSE [m |-> h[n.Metadata].m]]

\* PlanEnumerator.getPlanSignature: the node type, ":" and the table name
\* when there is one, then each child's signature in parentheses.
RECURSIVE getPlanSignature(_, _), SigChildren(_, _, _)
getPlanSignature(h, a) ==
    IF a = NULL THEN <<"nil">>
    ELSE <<h[a].NodeType>>
         \o (IF h[a].TableName # "" THEN <<":", h[a].TableName>> ELSE <<>>)
         \o SigChildren(h, h[a].Children, 1)

SigChildren(h, children, i) ==
    IF i > Len(children) THEN <<>>
    ELSE <<"(">> \o getPlanSignature(h, children[i]) \o <<")">>
         \o SigChildren(h, children, i + 1)

\* The plan nodes of the tree rooted at a.
RECURSIVE PlanNodes(_, _)
PlanNodes(h, a) ==
    IF a = NULL THEN {}
    ELSE {a} \cup UNION {PlanNodes(h, h[a].Children[i]) : i \in DOMAIN h[a].Children}

\* The node ids of the tree rooted at a, as a sequence in preorder.
RECURSIVE PlanIDs(_, _), IDsOfChildren(_, _, _)
PlanIDs(h, a) ==
    IF a = NULL THEN <<>> ELSE <<h[a].ID>> \o IDsOfChildren(h, h[a].Children, 1)

IDsOfChildren(h, children, i) ==
    IF i > Len(children) THEN <<>>
    ELSE PlanIDs(h, children[i]) \o IDsOfChildren(h, children, i + 1)

\* The table names of the Scan nodes of the tree rooted at a, in preorder.
RECURSIVE ScanTables(_, _), ScansOfChildren(_, _, _)
ScanTables(h, a) ==
    IF a = NULL THEN <<>>
    ELSE (IF h[a].NodeType = "scan" THEN <<h[a].TableName>> ELSE <<>>)
         \o ScansOfChildren(h, h[a].Children, 1)

ScansOfChildren(h, children, i) ==
    IF i > Len(children) THEN <<>>
    ELSE ScanTables(h, children[i]) \o ScansOfChildren(h, children, i + 1)

\* A sequence as a multiset: how often each element of S occurs in it.
Count(seq, x) == Cardinality({i \in DOMAIN seq : seq[i] = x})

SameMultiset(s1, s2) ==
    /\ Len(s1) = Len(s2)
    /\ \A i \in DOMAIN s1 : Count(s1, s1[i]) = Count(s2, s1[i])

\* The expression cells reachable from expression e.
RECURSIVE ExprCells(_, _)
ExprCells(h, e) ==
    IF e = NULL THEN {}
    ELSE {e} \cup ExprCells(h, h[e].Left) \cup ExprCells(h, h[e].Right)
         \cup UNION {ExprCells(h, h[e].Args[i]) : i \in DOMAIN h[e].Args}

\* The predicates, join conditions, expressions and metadata maps reachable
\* from the tree rooted at a.
OwnedCells(h, a) ==
    UNION { LET n == h[x] IN
              (IF n.Predicate = NULL THEN {}
               ELSE {n.Predicate} \cup ExprCells(h, h[n.Predicate].Expression))
              \cup (IF n.JoinCondition = NULL THEN {}
                    ELSE {n.JoinCondition}
                         \cup ExprCells(h, h[n.JoinCondition].Left)
                         \cup ExprCells(h, h[n.JoinCondition].Right))
              \cup UNION {ExprCells(h, n.Aggregates[i].Column) : i \in DOMAIN n.Aggregates}
              \cup UNION {ExprCells(h, n.OrderBy[i].Expression) : i \in DOMAIN n.OrderBy}
              \cup (IF n.Metadata = NULL THEN {} ELSE {n.Metadata})
            : x \in PlanNodes(h, a) }

\* A deep value with the node ids left out: what two trees that differ only
\* in their ids have in common.
RECURSIVE EraseIDs(_)
EraseIDs(v) ==
    IF v = Nil THEN Nil
    ELSE [v EXCEPT !.ID = "", !.Children = [i \in DOMAIN @ |-> EraseIDs(@[i])]]

Structure(h, a) == EraseIDs(DeepPlan(h, a))

\* --------------------------------------------------------- rule engine

\* A Go run-time panic (an index out of range) in the call: from then on the
\* call runs no statement.
Panic(st) == [st EXCEPT !.panic = TRUE]

\* A rule's result: the heap after it, the plan it returns, and changed.
RuleResult(st, plan, changed) == [st |-> st, plan |-> plan, changed |-> changed]

canPushFilterBelowProject(h, predicate, projectNode) == TRUE

\* A check that finds every Filter over a Join pushable to the left side.
canPushFilterToJoinSidesLeft(h, predicate, joinNode) == <<TRUE, FALSE>>

canPushFilterToJoinSides(h, predicate, joinNode) == <<FALSE, FALSE>>

\* A check that finds no projection redundant.
isRedundantProjectionNever(projections) == FALSE

isRedundantProjection(projections) ==
    Len(projections) = 1 /\ projections[1].Name = "*"

\* The Filter-over-Project rewrite: a new Filter over the Project's child,
\* a new Project over it.
PushFilterBelowProject(st, filter, project) ==
    IF Len(project.Children) = 0 THEN RuleResult(Panic(st), NULL, FALSE)
    ELSE
    Let(NewFilterNode(st, project.Children[1], filter.Predicate), LAMBDA newFilter :
    Let(NewProjectNode(newFilter.st, newFilter.ref, project.Projections),
        LAMBDA newProject :
    RuleResult(newProject.st, newProject.ref, TRUE)))

\* The rewrite PredicatePushdownRule.applyRecursive makes at the node
\* itself, before it visits the children.
PredicatePushdownTop(st, plan) ==
    IF st.h[plan].NodeType = "filter" /\ Len(st.h[plan].Children) = 1
    THEN CASE st.h[st.h[plan].Children[1]].NodeType = "project" ->
                IF canPushFilterBelowProject(st.h, st.h[plan].Predicate,
                                             st.h[plan].Children[1])
                THEN PushFilterBelowProject(st, st.h[plan],
                                            st.h[st.h[plan].Children[1]])
                ELSE RuleResult(st, plan, FALSE)
           [] st.h[st.h[plan].Children[1]].NodeType = "join" ->
                Let(canPushFilterToJoinSides(st.h, st.h[plan].Predicate,
                                             st.h[plan].Children[1]), LAMBDA sides :
                RuleResult(st, plan, sides[1] \/ sides[2]))
           [] OTHER -> RuleResult(st, plan, FALSE)
    ELSE RuleResult(st, plan, FALSE)

\* The rewrite ProjectionPushdownRule.applyRecursive makes at the node itself.
ProjectionPushdownTop(st, plan) ==
    IF st.h[plan].NodeType = "project" /\ Len(st.h[plan].Children) = 1
       /\ isRedundantProjection(st.h[plan].Projections)
    THEN RuleResult(st, st.h[plan].Children[1], TRUE)
    ELSE RuleResult(st, plan, FALSE)

\* NewRuleBasedOptimizer: the ordered rule list.
Rules ==
    <<"PredicatePushdown", "ProjectionPushdown", "ConstantFolding", "JoinReordering">>

RuleTop(name, st, plan) ==
    IF name = "PredicatePushdown" THEN PredicatePushdownTop(st, plan)
    ELSE ProjectionPushdownTop(st, plan)

\* applyRecursive of the two recursive rules: the rewrite at the node, then
\* the loop over the children of the node now in its place; a changed child
\* is stored into plan.Children[i].
RECURSIVE applyRecursive(_, _, _), applyToChildren(_, _, _, _, _)
applyRecursive(name, st, plan) ==
    IF plan = NULL THEN RuleResult(st, NULL, FALSE)
    ELSE Let(RuleTop(name, st, plan), LAMBDA top :
         IF top.st.panic THEN top
         ELSE applyToChildren(name, top.st, top.plan, 1, top.changed))

applyToChildren(name, st, plan, i, changed) ==
    IF i > Len(st.h[plan].Children) THEN RuleResult(st, plan, changed)
    ELSE Let(applyRecursive(name, st, st.h[plan].Children[i]), LAMBDA r :
         IF r.st.panic THEN r
         ELSE IF r.changed
         THEN applyToChildren(name, [r.st EXCEPT !.h[plan].Children[i] = r.plan],
                              plan, i + 1, TRUE)
         ELSE applyToChildren(name, r.st, plan, i + 1, changed))

\* rule.Apply: ConstantFolding and JoinReordering return the plan unchanged.
ApplyRule(name, st, plan) ==
    IF name \in {"PredicatePushdown", "ProjectionPushdown"}
    THEN applyRecursive(name, st, plan)
    ELSE RuleResult(st, plan, FALSE)

maxIterations == 10

EmptyExplain == [AppliedRules |-> <<>>, Steps |-> <<>>, TotalRulesApplied |-> 0]

\* Description is "Applied <rule> rule" for a rule's step; the step of the
\* cost phase has the final cost in it.
Step(ruleName, beforePlan, afterPlan) ==
    [RuleName |-> ruleName, BeforePlan |-> beforePlan, AfterPlan |-> afterPlan,
     Description |-> <<"Applied rule", ruleName>>]

\* fmt.Sprintf("%.2f", x) of a cost x held in units of 1/1000: the number of
\* hundredths nearest to it.
Format2(x) == (x + 5) \div 10

CostStep(beforePlan, afterPlan, finalCost) ==
    [RuleName |-> "CostBasedOptimization", BeforePlan |-> beforePlan,
     AfterPlan |-> afterPlan,
     Description |-> <<"Applied cost-based optimization, final cost",
                       Format2(finalCost)>>]

Recorded(explain, step) ==
    [explain EXCEPT !.AppliedRules = Append(@, step.RuleName),
                    !.Steps = Append(@, step)]

\* An engine that rewrites the caller's tree: currentPlan := plan.
InPlaceCopy(st, plan) == [st |-> st, ref |-> plan]

\* currentPlan := plan.Clone() at the head of RuleBasedOptimizer.Optimize.
WorkingCopy(st, plan) == Clone(st, plan)

\* rule.Apply through the OptimizationRule interface.  The interface lets a
\* rule return an error; st.fault says which application of the call, if any,
\* does (0: none), and st.applied counts the applications made so far.
Apply(name, st, plan) ==
    Let([st EXCEPT !.applied = @ + 1], LAMBDA s1 :
    IF s1.fault = s1.applied
    THEN [st |-> s1, plan |-> NULL, changed |-> FALSE, err |-> TRUE]
    ELSE Let(ApplyRule(name, s1, plan), LAMBDA res :
         [st |-> res.st, plan |-> res.plan, changed |-> res.changed,
          err |-> FALSE]))

\* What the heap held when a step was appended to explain.Steps: the working
\* plan right before the rule ran and the plan the rule returned.
Observed(st, ruleName, before, after) ==
    [st EXCEPT !.trace = Append(@, [RuleName |-> ruleName, before |-> before,
                                    after |-> after])]

\* One pass of the engine: the loop over the rules, from rule r on.
RECURSIVE RulePass(_, _, _, _, _)
RulePass(st, currentPlan, explain, r, changed) ==
    IF r > Len(Rules)
    THEN [st |-> st, plan |-> currentPlan, explain |-> explain,
          changed |-> changed, err |-> FALSE]
    ELSE Let(Clone(st, currentPlan), LAMBDA beforePlan :
         Let(Apply(Rules[r], beforePlan.st, currentPlan), LAMBDA res :
         IF res.err \/ res.st.panic
         THEN [st |-> res.st, plan |-> NULL, explain |-> explain,
               changed |-> changed, err |-> res.err]
         ELSE IF res.changed
         THEN RulePass(Observed(res.st, Rules[r],
                                Structure(beforePlan.st.h, currentPlan),
                                Structure(res.st.h, res.plan)),
                       res.plan,
                       Recorded(explain, Step(Rules[r], beforePlan.ref, res.plan)),
                       r + 1, TRUE)
         ELSE RulePass(res.st, currentPlan, explain, r + 1, changed)))

\* An engine that makes one pass and returns, whatever the pass reported.
SinglePassLoop(st, currentPlan, explain, iteration) ==
    Let(RulePass(st, currentPlan, explain, 1, FALSE), LAMBDA p :
    [st |-> [p.st EXCEPT !.changes = Append(@, p.changed)], plan |-> p.plan,
     explain |-> p.explain, passes |-> iteration + 1, err |-> p.err])

\* The loop over the iterations, from the given iteration on; st.changes
\* keeps the value of changed at the end of every pass.
RECURSIVE RuleLoop(_, _, _, _)
RuleLoop(st, currentPlan, explain, iteration) ==
    IF iteration >= maxIterations
    THEN [st |-> st, plan |-> currentPlan, explain |-> explain,
          passes |-> iteration, err |-> FALSE]
    ELSE Let(RulePass(st, currentPlan, explain, 1, FALSE), LAMBDA p :
         IF p.err \/ p.st.panic
         THEN [st |-> p.st, plan |-> NULL, explain |-> p.explain,
               passes |-> iteration + 1, err |-> p.err]
         ELSE Let([p.st EXCEPT !.changes = Append(@, p.changed)], LAMBDA s1 :
              IF ~p.changed
              THEN [st |-> s1, plan |-> p.plan, explain |-> p.explain,
                    passes |-> iteration + 1, err |-> FALSE]
              ELSE RuleLoop(s1, p.plan, p.explain, iteration + 1)))

\* RuleBasedOptimizer.Optimize / OptimizeWithRules on a non-nil plan.  On a
\* rule's error it returns nil, the explain built so far and the error.
OptimizeWithRules(st, plan) ==
    Let(WorkingCopy(st, plan), LAMBDA c :
    Let(RuleLoop(c.st, c.ref, EmptyExplain, 0), LAMBDA l :
    [st |-> l.st, plan |-> l.plan, err |-> l.err, passes |-> l.passes,
     explain |-> IF l.err THEN l.explain
                 ELSE [l.explain EXCEPT
                         !.TotalRulesApplied = Len(l.explain.AppliedRules)]]))

\* ---------------------------------------------------------- cost model

\* A catalog as the cost model reads it: table name -> row count.
\* catalog.NewCatalogManager() holds no table.
EmptyCatalog == [x \in {} |-> 0]

\* NewSimpleCostModel's factors, in units of 1/1000.
SeqScanCostPerPage == 1000
CPUCostPerTuple == 10
JoinCostFactor == 1500
SortCostFactor == 2000
HashCostFactor == 1200

UnknownTableRows == 1000

\* estimateSelectivity, in percent: the switch on the predicate's top value.
SelectivityOf(v) ==
    CASE v = "=" -> 10
      [] v \in {"<", ">", "<=", ">="} -> 33
      [] v = "LIKE" -> 20
      [] v = "IN" -> 30
      [] v = "IS NULL" -> 5
      [] v = "IS NOT NULL" -> 95
      [] OTHER -> 50

estimateSelectivity(h, predicate) ==
    IF predicate = NULL \/ h[predicate].Expression = NULL THEN 100
    ELSE SelectivityOf(h[h[predicate].Expression].Value)

Min(a, b) == IF a < b THEN a ELSE b

\* The Join case of EstimateCardinality, from the children's cardinalities.
JoinCardinality(joinType, leftCard, rightCard) ==
    CASE joinType = "cross" -> leftCard * rightCard
      [] joinType = "inner" -> (leftCard * rightCard) \div 10
      [] joinType = "left" -> leftCard
      [] joinType = "right" -> rightCard
      [] joinType = "full" -> leftCard + rightCard
      [] OTHER -> (leftCard * rightCard) \div 10

RECURSIVE EstimateCardinality(_, _, _)
EstimateCardinality(h, cat, plan) ==
    IF plan = NULL THEN 0
    ELSE
      CASE h[plan].NodeType = "scan" ->
              IF h[plan].TableName \in DOMAIN cat THEN cat[h[plan].TableName]
              ELSE UnknownTableRows
        [] h[plan].NodeType = "filter" ->
              IF Len(h[plan].Children) = 0 THEN 0
              ELSE (EstimateCardinality(h, cat, h[plan].Children[1])
                      * estimateSelectivity(h, h[plan].Predicate)) \div 100
        [] h[plan].NodeType \in {"project", "sort"} ->
              IF Len(h[plan].Children) = 0 THEN 0
              ELSE EstimateCardinality(h, cat, h[plan].Children[1])
        [] h[plan].NodeType = "join" ->
              IF Len(h[plan].Children) < 2 THEN 0
              ELSE JoinCardinality(h[plan].JoinType,
                                   EstimateCardinality(h, cat, h[plan].Children[1]),
                                   EstimateCardinality(h, cat, h[plan].Children[2]))
        [] h[plan].NodeType = "aggregate" ->
              IF Len(h[plan].Children) = 0 \/ Len(h[plan].GroupBy) = 0 THEN 1
              ELSE EstimateCardinality(h, cat, h[plan].Children[1]) \div 10
        [] h[plan].NodeType = "limit" ->
              IF h[plan].LimitCount # NULL
              THEN IF Len(h[plan].Children) = 0 THEN 0   \* panics: CardinalityPanics
                   ELSE Min(EstimateCardinality(h, cat, h[plan].Children[1]),
                            h[h[plan].LimitCount].v)
              ELSE IF Len(h[plan].Children) = 0 THEN 0
              ELSE EstimateCardinality(h, cat, h[plan].Children[1])
        [] OTHER -> UnknownTableRows

CostEstimate(total, cpu, io, network, memory, cardinality) ==
    [TotalCost |-> total, CPUCost |-> cpu, IOCost |-> io,
     NetworkCost |-> network, MemoryCost |-> memory, Cardinality |-> cardinality]

ZeroCost == CostEstimate(0, 0, 0, 0, 0, 0)

\* The child's cost with a CPU and a memory contribution added.
Plus(c, cpu, mem, outCard) ==
    CostEstimate(c.TotalCost + cpu, c.CPUCost + cpu, c.IOCost,
                 c.NetworkCost, c.MemoryCost + mem, outCard)

\* The child's cost scaled by k/d.
Scaled(c, k, d, outCard) ==
    CostEstimate((c.TotalCost * k) \div d, (c.CPUCost * k) \div d,
                 (c.IOCost * k) \div d, (c.NetworkCost * k) \div d,
                 (c.MemoryCost * k) \div d, outCard)

\* math.Log2 in units of 1/1000, by linear interpolation between the powers
\* of two (the model's only approximation of the float arithmetic).
RECURSIVE FloorLog2(_)
FloorLog2(n) == IF n < 2 THEN 0 ELSE 1 + FloorLog2(n \div 2)

Log2Milli(n) ==
    1000 * FloorLog2(n) + (1000 * (n - 2 ^ FloorLog2(n))) \div (2 ^ FloorLog2(n))

estimateScanCost(cat, n) ==
    IF n.TableName \notin DOMAIN cat
    THEN CostEstimate(1000000, 200000, 800000, 0, 0, UnknownTableRows)
    ELSE Let(cat[n.TableName], LAMBDA rows :
         Let(IF rows < 100 THEN 1000 ELSE rows * 10, LAMBDA pages :
         Let((pages \div 1000) * SeqScanCostPerPage
               + ((pages % 1000) * SeqScanCostPerPage) \div 1000, LAMBDA ioCost :
         CostEstimate(ioCost + rows * CPUCostPerTuple, rows * CPUCostPerTuple,
                      ioCost, 0, 0, rows))))

estimateFilterCost(h, n, childCost) ==
    Plus(childCost, (childCost.Cardinality * CPUCostPerTuple) \div 2, 0,
         (childCost.Cardinality * estimateSelectivity(h, n.Predicate)) \div 100)

estimateProjectCost(childCost) ==
    Plus(childCost, (childCost.Cardinality * CPUCostPerTuple) \div 10, 0,
         childCost.Cardinality)

estimateJoinCost(leftCost, rightCost, outputCardinality) ==
    Let(leftCost.Cardinality * rightCost.Cardinality
          * ((CPUCostPerTuple * JoinCostFactor) \div 1000), LAMBDA joinCpuCost :
    CostEstimate(leftCost.TotalCost + rightCost.TotalCost + joinCpuCost,
                 leftCost.CPUCost + rightCost.CPUCost + joinCpuCost,
                 leftCost.IOCost + rightCost.IOCost,
                 leftCost.NetworkCost + rightCost.NetworkCost,
                 leftCost.MemoryCost + rightCost.MemoryCost,
                 outputCardinality))

estimateAggregateCost(childCost, outputCardinality) ==
    Plus(childCost,
         childCost.Cardinality * ((CPUCostPerTuple * HashCostFactor) \div 1000),
         childCost.Cardinality * 100, outputCardinality)

estimateSortCost(childCost) ==
    IF childCost.Cardinality <= 1 THEN childCost
    ELSE Plus(childCost,
              childCost.Cardinality
                * ((Log2Milli(childCost.Cardinality)
                      * ((CPUCostPerTuple * SortCostFactor) \div 1000)) \div 1000),
              childCost.Cardinality * 200, childCost.Cardinality)

estimateLimitCost(h, n, childCost, outputCardinality) ==
    IF n.LimitCount # NULL /\ h[n.LimitCount].v < childCost.Cardinality
    THEN Scaled(childCost, h[n.LimitCount].v, childCost.Cardinality,
                outputCardinality)
    ELSE childCost

\* EstimateCost: the switch on the node type; each estimate*Cost returns the
\* zero estimate for a node without the children it needs.
RECURSIVE EstimateCost(_, _, _)
EstimateCost(h, cat, plan) ==
    IF plan = NULL THEN ZeroCost
    ELSE
      CASE h[plan].NodeType = "scan" -> estimateScanCost(cat, h[plan])
        [] h[plan].NodeType = "join" ->
              IF Len(h[plan].Children) < 2 THEN ZeroCost
              ELSE estimateJoinCost(EstimateCost(h, cat, h[plan].Children[1]),
                                    EstimateCost(h, cat, h[plan].Children[2]),
                                    EstimateCardinality(h, cat, plan))
        [] h[plan].NodeType \in {"filter", "project", "aggregate", "sort", "limit"} ->
              IF Len(h[plan].Children) = 0 THEN ZeroCost
              ELSE Let(EstimateCost(h, cat, h[plan].Children[1]), LAMBDA childCost :
                   CASE h[plan].NodeType = "filter" ->
                          estimateFilterCost(h, h[plan], childCost)
                     [] h[plan].NodeType = "project" -> estimateProjectCost(childCost)
                     [] h[plan].NodeType = "aggregate" ->
                          estimateAggregateCost(childCost,
                                                EstimateCardinality(h, cat, plan))
                     [] h[plan].NodeType = "sort" -> estimateSortCost(childCost)
                     [] h[plan].NodeType = "limit" ->
                          estimateLimitCost(h, h[plan], childCost,
                                            EstimateCardinality(h, cat, plan)))
        [] OTHER ->
              Let(EstimateCardinality(h, cat, plan), LAMBDA cardinality :
              CostEstimate(cardinality * CPUCostPerTuple,
                           cardinality * CPUCostPerTuple, 0, 0, 0, cardinality))

\* Whether EstimateCardinality indexes plan.Children[0] of a node that has no
\* child: the Limit case reads it before it tests len(plan.Children).
RECURSIVE CardinalityPanics(_, _)
CardinalityPanics(h, plan) ==
    IF plan = NULL THEN FALSE
    ELSE
      CASE h[plan].NodeType \in {"filter", "project", "sort", "aggregate"} ->
              /\ Len(h[plan].Children) > 0
              /\ CardinalityPanics(h, h[plan].Children[1])
        [] h[plan].NodeType = "join" ->
              /\ Len(h[plan].Children) >= 2
              /\ \/ CardinalityPanics(h, h[plan].Children[1])
                 \/ CardinalityPanics(h, h[plan].Children[2])
        [] h[plan].NodeType = "limit" ->
              IF h[plan].LimitCount # NULL
              THEN \/ Len(h[plan].Children) = 0
                   \/ CardinalityPanics(h, h[plan].Children[1])
              ELSE /\ Len(h[plan].Children) > 0
                   /\ CardinalityPanics(h, h[plan].Children[1])
        [] OTHER -> FALSE

\* Whether EstimateCost panics: in the estimate of a child, or in the
\* EstimateCardinality call of the Join, Aggregate and Limit estimates.
RECURSIVE CostPanics(_, _)
CostPanics(h, plan) ==
    IF plan = NULL THEN FALSE
    ELSE
      CASE h[plan].NodeType = "join" ->
              /\ Len(h[plan].Children) >= 2
              /\ \/ CostPanics(h, h[plan].Children[1])
                 \/ CostPanics(h, h[plan].Children[2])
                 \/ CardinalityPanics(h, plan)
        [] h[plan].NodeType \in {"filter", "project", "sort"} ->
              /\ Len(h[plan].Children) > 0
              /\ CostPanics(h, h[plan].Children[1])
        [] h[plan].NodeType \in {"aggregate", "limit"} ->
              /\ Len(h[plan].Children) > 0
              /\ \/ CostPanics(h, h[plan].Children[1])
                 \/ CardinalityPanics(h, plan)
        [] OTHER -> FALSE

\* ------------------------------------------------- cost-based optimizer

MapPut(m, key, value) ==
    [x \in DOMAIN m \cup {key} |-> IF x = key THEN value ELSE m[x]]

\* plan.Metadata[key] = value: a write into the map the node points to.
SetMetadata(st, plan, key, value) ==
    [st EXCEPT !.h[st.h[plan].Metadata].m = MapPut(@, key, value)]

\* A swap that loses the left input: what optimizeJoinOrder would build if it
\* passed rightChild twice.
SwapDropsLeft(leftChild, rightChild) == <<rightChild, rightChild>>

\* The children of swappedPlan, in the order NewJoinNode receives them.
SwappedChildren(leftChild, rightChild) == <<rightChild, leftChild>>

\* A comparison that also takes a swapped plan of equal cost.
NotDearer(swappedCost, currentCost) ==
    swappedCost.TotalCost <= currentCost.TotalCost

\* optimizeJoinOrder's test for replacing plan by swappedPlan.
Cheaper(swappedCost, currentCost) ==
    swappedCost.TotalCost < currentCost.TotalCost

\* The Join case of optimizeJoinOrder, before the loop over the children:
\* swappedPlan is always built, and replaces plan only when it is cheaper.
JoinOrderTop(st, cat, plan) ==
    IF st.h[plan].NodeType = "join" /\ Len(st.h[plan].Children) = 2
    THEN IF CostPanics(st.h, plan) THEN [st |-> Panic(st), plan |-> plan]
         ELSE
         Let(SwappedChildren(st.h[plan].Children[1], st.h[plan].Children[2]),
             LAMBDA sw :
         Let(NewJoinNode(st, sw[1], sw[2], st.h[plan].JoinType,
                         st.h[plan].JoinCondition), LAMBDA swappedPlan :
         IF Cheaper(EstimateCost(swappedPlan.st.h, cat, swappedPlan.ref),
                    EstimateCost(st.h, cat, plan))
         THEN [st |-> swappedPlan.st, plan |-> swappedPlan.ref]
         ELSE [st |-> swappedPlan.st, plan |-> plan]))
    ELSE [st |-> st, plan |-> plan]

RECURSIVE optimizeJoinOrder(_, _, _), optimizeJoinOrderChildren(_, _, _, _)
optimizeJoinOrder(st, cat, plan) ==
    IF plan = NULL THEN [st |-> st, plan |-> NULL]
    ELSE Let(JoinOrderTop(st, cat, plan), LAMBDA top :
         IF top.st.panic THEN top
         ELSE optimizeJoinOrderChildren(top.st, cat, top.plan, 1))

optimizeJoinOrderChildren(st, cat, plan, i) ==
    IF i > Len(st.h[plan].Children) THEN [st |-> st, plan |-> plan]
    ELSE Let(optimizeJoinOrder(st, cat, st.h[plan].Children[i]), LAMBDA c :
         IF c.st.panic THEN [st |-> c.st, plan |-> plan]
         ELSE optimizeJoinOrderChildren(
                  [c.st EXCEPT !.h[plan].Children[i] = c.plan], cat, plan, i + 1))

\* The thresholds of selectPhysicalOperators.
NestedLoopMaxRows == 1000
SortMergeMinRows == 1000000
HashAggregateMaxRows == 10000
QuicksortMaxRows == 100000

JoinOperator(st, plan, leftCard, rightCard) ==
    Let(IF leftCard < NestedLoopMaxRows /\ rightCard < NestedLoopMaxRows
        THEN SetMetadata(st, plan, "physical_operator", "nested_loop_join")
        ELSE SetMetadata(SetMetadata(st, plan, "physical_operator", "hash_join"),
                         plan, "build_side",
                         IF leftCard < rightCard THEN "left" ELSE "right"),
        LAMBDA s1 :
    IF leftCard > SortMergeMinRows /\ rightCard > SortMergeMinRows
    THEN SetMetadata(s1, plan, "physical_operator", "sort_merge_join")
    ELSE s1)

\* The switch of selectPhysicalOperators on the node type.
PhysicalOperatorTop(st, cat, plan) ==
    CASE st.h[plan].NodeType = "join" ->
            IF \/ Len(st.h[plan].Children) < 2
               \/ CardinalityPanics(st.h, st.h[plan].Children[1])
               \/ CardinalityPanics(st.h, st.h[plan].Children[2])
            THEN Panic(st)
            ELSE
            JoinOperator(st, plan,
                         EstimateCardinality(st.h, cat, st.h[plan].Children[1]),
                         EstimateCardinality(st.h, cat, st.h[plan].Children[2]))
      [] st.h[plan].NodeType \in {"aggregate", "sort"}
           /\ CardinalityPanics(st.h, plan) -> Panic(st)
      [] st.h[plan].NodeType = "aggregate" ->
            SetMetadata(st, plan, "physical_operator",
                        IF Len(st.h[plan].GroupBy) = 0
                           \/ EstimateCardinality(st.h, cat, plan) < HashAggregateMaxRows
                        THEN "hash_aggregate" ELSE "sort_aggregate")
      [] st.h[plan].NodeType = "sort" ->
            SetMetadata(st, plan, "physical_operator",
                        IF EstimateCardinality(st.h, cat, plan) < QuicksortMaxRows
                        THEN "quicksort" ELSE "external_sort")
      [] st.h[plan].NodeType = "scan" ->
            IF st.h[plan].Metadata = NULL
            THEN Let(Alloc(st, NewMap(EmptyMap)), LAMBDA m :
                 SetMetadata([m.st EXCEPT !.h[plan].Metadata = m.ref], plan,
                             "scan_type", "sequential"))
            ELSE SetMetadata(st, plan, "scan_type", "sequential")
      [] OTHER -> st

RECURSIVE selectPhysicalOperators(_, _, _), selectPhysicalChildren(_, _, _, _)
selectPhysicalOperators(st, cat, plan) ==
    IF plan = NULL THEN st
    ELSE Let(PhysicalOperatorTop(st, cat, plan), LAMBDA top :
         IF top.panic THEN top ELSE selectPhysicalChildren(top, cat, plan, 1))

selectPhysicalChildren(st, cat, plan, i) ==
    IF i > Len(st.h[plan].Children) \/ st.panic THEN st
    ELSE selectPhysicalChildren(
             selectPhysicalOperators(st, cat, st.h[plan].Children[i]),
             cat, plan, i + 1)

\* A propagation that stamps the cost and leaves EstimatedRows as it was.
StoreCostOnly(st, plan, cost) ==
    Let(Alloc(st, [k |-> "val", v |-> cost.TotalCost]), LAMBDA c :
    [c.st EXCEPT !.h[plan].EstimatedCost = c.ref])

\* plan.EstimatedCost = &cost.TotalCost; plan.EstimatedRows = &cost.Cardinality
StoreEstimate(st, plan, cost) ==
    Let(Alloc(st, [k |-> "val", v |-> cost.TotalCost]), LAMBDA c :
    Let(Alloc(c.st, [k |-> "val", v |-> cost.Cardinality]), LAMBDA r :
    [r.st EXCEPT !.h[plan].EstimatedCost = c.ref,
                 !.h[plan].EstimatedRows = r.ref]))

RECURSIVE propagateCostEstimates(_, _, _), propagateChildren(_, _, _, _)
propagateCostEstimates(st, cat, plan) ==
    IF plan = NULL THEN st
    ELSE Let(propagateChildren(st, cat, plan, 1), LAMBDA s1 :
         IF s1.panic THEN s1
         ELSE IF CostPanics(s1.h, plan) THEN Panic(s1)
         ELSE StoreEstimate(s1, plan, EstimateCost(s1.h, cat, plan)))

propagateChildren(st, cat, plan, i) ==
    IF i > Len(st.h[plan].Children) \/ st.panic THEN st
    ELSE propagateChildren(propagateCostEstimates(st, cat, st.h[plan].Children[i]),
                           cat, plan, i + 1)

\* optimizedPlan := plan.Clone() at the head of applyCostBasedOptimizations.
CostWorkingCopy(st, plan) == Clone(st, plan)

applyCostBasedOptimizations(st, cat, plan) ==
    Let(CostWorkingCopy(st, plan), LAMBDA c :
    Let(optimizeJoinOrder(c.st, cat, c.ref), LAMBDA j :
    IF j.st.panic THEN j
    ELSE [st |-> selectPhysicalOperators(j.st, cat, j.plan), plan |-> j.plan]))

\* CostBasedOptimizer.Optimize on a non-nil plan.  When OptimizeWithRules
\* returns an error, it returns nil, its own explain (still empty) and the
\* error.
CostBasedOptimize(st, cat, plan) ==
    Let(OptimizeWithRules(st, plan), LAMBDA rules :
    IF rules.err \/ rules.st.panic
    THEN [st |-> rules.st, plan |-> NULL, err |-> rules.err,
          passes |-> rules.passes, explain |-> EmptyExplain]
    ELSE
    Let(applyCostBasedOptimizations(rules.st, cat, rules.plan), LAMBDA cost :
    IF cost.st.panic \/ CostPanics(cost.st.h, cost.plan)
    THEN [st |-> Panic(cost.st), plan |-> NULL, err |-> FALSE,
          passes |-> rules.passes, explain |-> EmptyExplain]
    ELSE
    Let(EstimateCost(cost.st.h, cat, cost.plan), LAMBDA finalCost :
    Let(propagateCostEstimates(cost.st, cat, cost.plan), LAMBDA s1 :
    IF s1.panic
    THEN [st |-> s1, plan |-> NULL, err |-> FALSE, passes |-> rules.passes,
          explain |-> EmptyExplain]
    ELSE
    Let(Recorded(rules.explain,
                 CostStep(rules.plan, cost.plan, finalCost.TotalCost)), LAMBDA e :
    [st |-> Observed(s1, "CostBasedOptimization",
                     Structure(rules.st.h, rules.plan), Structure(s1.h, cost.plan)),
     plan |-> cost.plan, err |-> FALSE, passes |-> rules.passes,
     explain |-> [e EXCEPT !.TotalRulesApplied = Len(e.AppliedRules)]])))))

\* OptimizeWithCost: a new, empty catalog for every call.
OptimizeWithCost(st, plan) == CostBasedOptimize(st, EmptyCatalog, plan)

\* ------------------------------------------------ the plan state machine

NoCall ==
    [op |-> "none", plan |-> NULL, err |-> FALSE, passes |-> 0,
     explain |-> EmptyExplain, changes |-> <<>>, trace |-> <<>>, fault |-> 0,
     applied |-> 0, panic |-> FALSE, enum |-> Nil, costed |-> 0,
     metrics |-> Nil]

\* What a call starts from: the process memory, no rule that fails, and
\* nothing observed yet.
Mem ==
    [h |-> heap, idc |-> idCounter, fault |-> 0, applied |-> 0,
     changes |-> <<>>, trace |-> <<>>, panic |-> FALSE, costed |-> 0]

\* A request's plan.  It was either built in this process with the
\* constructors, which leaves idCounter at the largest id, or decoded from the
\* request body by OptimizeHandler, which keeps the ids the client sent and
\* does not touch idCounter.
PlanBuilt(b, decoded) ==
    /\ heap = b.st.h
    /\ idCounter = IF decoded THEN 0 ELSE b.st.idc
    /\ input = b.ref
    /\ call = NoCall
    /\ snapIn = DeepPlan(b.st.h, b.ref)
    /\ snapOut = Nil
    /\ writes = 0

PlanInit ==
    \E s \in InputShapes, decoded \in BOOLEAN :
        PlanBuilt(Build([h |-> <<>>, idc |-> 0], s), decoded)

\* A call returns r: memory is as the call left it.
Returned(op, r) ==
    /\ heap' = r.st.h
    /\ idCounter' = r.st.idc
    /\ call' = [op |-> op, plan |-> r.plan, err |-> r.err, passes |-> r.passes,
                explain |-> r.explain, changes |-> r.st.changes,
                trace |-> r.st.trace, fault |-> r.st.fault,
                applied |-> r.st.applied, panic |-> r.st.panic,
                enum |-> IF "enum" \in DOMAIN r THEN r.enum ELSE Nil,
                costed |-> r.st.costed,
                metrics |-> IF "metrics" \in DOMAIN r THEN r.metrics ELSE Nil]
    /\ snapOut' = DeepPlan(r.st.h, r.plan)
    /\ UNCHANGED <<input, snapIn, writes, gen>>
    /\ UNCHANGED catVars

CloneReturned(c) ==
    Returned("clone", [st |-> c.st, plan |-> c.ref, err |-> FALSE, passes |-> 0,
                       explain |-> EmptyExplain])

CallClone ==
    /\ call.op = "none"
    /\ CloneReturned(Clone(Mem, input))

CallOptimizeRule ==
    /\ call.op = "none"
    /\ Returned("rule", OptimizeWithRules(Mem, input))

CallOptimizeCost ==
    /\ call.op = "none"
    /\ Returned("cost", OptimizeWithCost(Mem, input))

\* What a caller that owns a tree may write into one of its cells.
Written(cell) ==
    CASE cell.k = "expr" -> [cell EXCEPT !.Value = "changed"]
      [] cell.k = "pred" -> [cell EXCEPT !.Expression = NULL]
      [] cell.k = "jc" -> [cell EXCEPT !.Operator = "changed"]
      [] cell.k = "map" -> [cell EXCEPT !.m = MapPut(@, "changed", "changed")]

\* After Clone returned, the owner of the input or of the clone writes into a
\* predicate, join condition, expression or metadata map it reaches from its
\* tree.  The snapshot of the written side follows the write; the other
\* side's snapshot stays what it was.
OwnerWrite ==
    /\ call.op = "clone"
    /\ writes < MaxWrites
    /\ \E side \in {"input", "clone"} :
         \E a \in OwnedCells(heap, IF side = "input" THEN input ELSE call.plan) :
            /\ heap' = [heap EXCEPT ![a] = Written(@)]
            /\ snapIn' = IF side = "input" THEN DeepPlan(heap', input) ELSE snapIn
            /\ snapOut' = IF side = "clone" THEN DeepPlan(heap', call.plan)
                          ELSE snapOut
    /\ writes' = writes + 1
    /\ UNCHANGED <<idCounter, input, call, gen>>
    /\ UNCHANGED catVars

\* -------------------------------------------------------------- catalog

NumProcs == 2        \* request goroutines that run at the same time
MaxCalls == 3        \* catalog requests the server receives

Procs == 1..NumProcs

TableNames == {"t", "u"}

\* A Column without statistics.
Column(name, dataType) ==
    [Name |-> name, DataType |-> dataType, Nullable |-> FALSE, NDV |-> NULL,
     MinValue |-> NULL, MaxValue |-> NULL, Histogram |-> <<>>, NullCount |-> NULL]

TableSchema(name, columns, rowCount, indexes) ==
    [Name |-> name, Columns |-> columns, RowCount |-> rowCount,
     Indexes |-> indexes, Metadata |-> NULL]

\* The schema a client posts for a table: two columns, one index, no
\* statistics yet.
PostedColumns == <<Column("c1", "int"), Column("c2", "string")>>

PostedIndexes ==
    <<[Name |-> "pk", Columns |-> <<"c1">>, Unique |-> TRUE, Type |-> "btree"]>>

PostedRowCount == 100

\* The statistics fields UpdateTableStats assigns, in the order of its
\* assignments.
StatFields == <<"NDV", "MinValue", "MaxValue", "Histogram", "NullCount">>

\* The body of the n-th request when it is an update: the row count and the
\* statistics of one column.
RowCountOf(n) == 1000 * n

StatsOf(n) ==
    [NDV |-> n, MinValue |-> 10 * n, MaxValue |-> 20 * n, Histogram |-> <<n>>,
     NullCount |-> n]

\* The requests: operation and arguments (cols: the keys of columnStats).
Request(op, name, col, cols, oper) ==
    [op |-> op, name |-> name, col |-> col, cols |-> cols, oper |-> oper]

Requests ==
    {Request(o, n, "", {}, "") : o \in {"AddTable", "GetTable"}, n \in TableNames}
    \cup {Request("GetAllTables", "", "", {}, "")}
    \cup {Request("UpdateTableStats", n, "", cs, "") :
            n \in TableNames, cs \in {{"c1"}, {"c2", "zz"}}}
    \cup {Request("GetColumnStats", "t", c, {}, "") : c \in {"c1", "zz"}}
    \cup {Request("GetColumnStats", "u", "c1", {}, "")}
    \cup {Request("EstimateSelectivity", "t", "c1", {}, o) : o \in {"=", "LIKE"}}

\* The value of the TableSchema at address a with its Columns slice followed.
Record(schs, arrs, a) ==
    [Name |-> schs[a].Name, RowCount |-> schs[a].RowCount,
     Columns |-> arrs[schs[a].Columns], Indexes |-> schs[a].Indexes]

\* The value of the whole catalog: table name -> record.
Store(tbls, schs, arrs) == [n \in DOMAIN tbls |-> Record(schs, arrs, tbls[n])]

Version(by, rec) == [by |-> by, rec |-> rec]

\* sync.RWMutex: the goroutine holding the write lock (0: none) and the read
\* locks each goroutine holds.
Unlocked == [w |-> 0, r |-> [p \in Procs |-> 0]]

Readers(m) == {p \in Procs : m.r[p] > 0}

CanLock(m) == m.w = 0 /\ Readers(m) = {}

CanRLock(m) == m.w = 0

Lock(m, p) == [m EXCEPT !.w = p]

Unlock(m, p) == [m EXCEPT !.w = 0]

RLock(m, p) == [m EXCEPT !.r[p] = @ + 1]

\* A return path that leaves the read lock held.
RUnlockSkipped(m, p) == m

RUnlock(m, p) == [m EXCEPT !.r[p] = @ - 1]

\* The locks goroutine p holds.
Held(m, p) == (IF m.w = p THEN 1 ELSE 0) + m.r[p]

\* A goroutine between requests, before its first one.
Idle ==
    [pc |-> "idle", op |-> "none", name |-> "", col |-> "", oper |-> "",
     rowCount |-> 0, columnStats |-> <<>>, table |-> NULL, i |-> 0, f |-> 0,
     err |-> "", res |-> Nil, sel |-> Nil, ret |-> Nil, seen |-> Nil,
     pre |-> Nil, post |-> Nil, known |-> {}, absent |-> FALSE,
     startVer |-> 0, endVer |-> 0]

FirstStep(op) ==
    CASE op = "AddTable" -> "add_lock"
      [] op = "GetAllTables" -> "list_rlock"
      [] op = "UpdateTableStats" -> "upd_lock"
      [] OTHER -> "get_rlock"

\* The catalog holds table t, added before the requests considered here.
CatalogInit ==
    /\ arrays = <<PostedColumns>>
    /\ schemas = <<TableSchema("t", 1, PostedRowCount, PostedIndexes)>>
    /\ tables = [n \in {"t"} |-> 1]
    /\ mu = Unlocked
    /\ proc = [p \in Procs |-> Idle]
    /\ issued = 0
    /\ versions = [n \in TableNames |->
                     IF n = "t"
                     THEN <<Version("add", Record(schemas, arrays, 1))>>
                     ELSE <<>>]

\* gin starts a goroutine for the request: the handler decodes the body and
\* calls the catalog.
Invoke(p) ==
    /\ proc[p].pc = "idle"
    /\ issued < MaxCalls
    /\ \E req \in Requests :
         proc' = [proc EXCEPT ![p] =
                    [Idle EXCEPT
                       !.pc = FirstStep(req.op), !.op = req.op,
                       !.name = req.name, !.col = req.col, !.oper = req.oper,
                       !.rowCount = RowCountOf(issued + 1),
                       !.columnStats = [c \in req.cols |-> StatsOf(issued + 1)],
                       !.known = {n \in TableNames : versions[n] # <<>>},
                       !.absent = (req.name \notin DOMAIN tables),
                       !.startVer = IF req.name \in TableNames
                                    THEN Len(versions[req.name]) ELSE 0]]
    /\ issued' = issued + 1
    /\ UNCHANGED <<tables, schemas, arrays, mu, versions>>
    /\ UNCHANGED planVars

\* ---- AddTable

AddTableLock(p) ==
    /\ proc[p].pc = "add_lock"
    /\ CanLock(mu)
    /\ mu' = Lock(mu, p)
    /\ proc' = [proc EXCEPT ![p].pc = "add_body"]
    /\ UNCHANGED <<tables, schemas, arrays, issued, versions>>
    /\ UNCHANGED planVars

\* An AddTable that does not look for the name.
NeverExists(tbls, name) == FALSE

\* _, exists := cm.tables[schema.Name]
Exists(tbls, name) == name \in DOMAIN tbls

\* The check, the store of the caller's schema, the deferred Unlock.
AddTableBody(p) ==
    /\ proc[p].pc = "add_body"
    /\ IF Exists(tables, proc[p].name)
       THEN /\ UNCHANGED <<tables, schemas, arrays, versions>>
            /\ proc' = [proc EXCEPT
                          ![p].pc = "idle", ![p].err = "AlreadyExists",
                          ![p].pre = Store(tables, schemas, arrays),
                          ![p].post = Store(tables, schemas, arrays)]
       ELSE /\ arrays' = Append(arrays, PostedColumns)
            /\ schemas' = Append(schemas,
                                 TableSchema(proc[p].name, Len(arrays) + 1,
                                             PostedRowCount, PostedIndexes))
            /\ tables' = [n \in DOMAIN tables \cup {proc[p].name} |->
                            IF n = proc[p].name THEN Len(schemas) + 1
                            ELSE tables[n]]
            /\ versions' = [versions EXCEPT ![proc[p].name] =
                              Append(@, Version("add",
                                    Record(schemas', arrays', Len(schemas) + 1)))]
            /\ proc' = [proc EXCEPT
                          ![p].pc = "idle", ![p].err = "",
                          ![p].pre = Store(tables, schemas, arrays),
                          ![p].post = Store(tables', schemas', arrays')]
    /\ mu' = Unlock(mu, p)
    /\ UNCHANGED issued
    /\ UNCHANGED planVars

\* ---- GetTable, called by the handler, GetColumnStats or EstimateSelectivity

GetTableRLock(p) ==
    /\ proc[p].pc = "get_rlock"
    /\ CanRLock(mu)
    /\ mu' = RLock(mu, p)
    /\ proc' = [proc EXCEPT ![p].pc = "get_body"]
    /\ UNCHANGED <<tables, schemas, arrays, issued, versions>>
    /\ UNCHANGED planVars

\* The lookup, tableCopy := *table, the deferred RUnlock.  The copy is a new
\* TableSchema whose Columns slice has the backing array of the stored one.
GetTableBody(p) ==
    /\ proc[p].pc = "get_body"
    /\ IF ~Exists(tables, proc[p].name)
       THEN /\ UNCHANGED schemas
            /\ proc' = [proc EXCEPT
                          ![p].pc = "idle", ![p].err = "NotFound",
                          ![p].endVer = Len(versions[proc[p].name])]
       ELSE /\ schemas' = Append(schemas, schemas[tables[proc[p].name]])
            /\ proc' = [proc EXCEPT
                          ![p].table = Len(schemas) + 1,
                          ![p].ret = Record(schemas', arrays, Len(schemas) + 1),
                          ![p].endVer = Len(versions[proc[p].name]),
                          ![p].i = 1,
                          ![p].pc = IF proc[p].op = "GetTable" THEN "observe"
                                    ELSE "gcs_loop"]
    /\ mu' = RUnlock(mu, p)
    /\ UNCHANGED <<tables, arrays, issued, versions>>
    /\ UNCHANGED planVars

\* NewGetTableStatsHandler serialises the table it was returned: it reads the
\* copy and, through its Columns slice, the columns.
Observe(p) ==
    /\ proc[p].pc = "observe"
    /\ proc' = [proc EXCEPT
                  ![p].pc = "idle",
                  ![p].seen = Record(schemas, arrays, proc[p].table)]
    /\ UNCHANGED <<tables, schemas, arrays, mu, issued, versions>>
    /\ UNCHANGED planVars

\* ---- GetAllTables

GetAllTablesRLock(p) ==
    /\ proc[p].pc = "list_rlock"
    /\ CanRLock(mu)
    /\ mu' = RLock(mu, p)
    /\ proc' = [proc EXCEPT ![p].pc = "list_body"]
    /\ UNCHANGED <<tables, schemas, arrays, issued, versions>>
    /\ UNCHANGED planVars

\* The sequences that hold every element of S once: the orders in which a
\* range over a map may visit its keys.
Orders(S) ==
    {q \in [1..Cardinality(S) -> S] : \A x \in S : \E i \in DOMAIN q : q[i] = x}

GetAllTablesBody(p) ==
    /\ proc[p].pc = "list_body"
    /\ \E names \in Orders(DOMAIN tables) :
         proc' = [proc EXCEPT ![p].pc = "idle", ![p].res = [names |-> names]]
    /\ mu' = RUnlock(mu, p)
    /\ UNCHANGED <<tables, schemas, arrays, issued, versions>>
    /\ UNCHANGED planVars

\* ---- UpdateTableStats

UpdateLock(p) ==
    /\ proc[p].pc = "upd_lock"
    /\ CanLock(mu)
    /\ mu' = Lock(mu, p)
    /\ proc' = [proc EXCEPT ![p].pc = "upd_lookup"]
    /\ UNCHANGED <<tables, schemas, arrays, issued, versions>>
    /\ UNCHANGED planVars

\* The lookup and table.RowCount = rowCount; on a miss the error and the
\* deferred Unlock.
UpdateLookup(p) ==
    /\ proc[p].pc = "upd_lookup"
    /\ IF ~Exists(tables, proc[p].name)
       THEN /\ proc' = [proc EXCEPT
                          ![p].pc = "idle", ![p].err = "NotFound",
                          ![p].pre = Store(tables, schemas, arrays),
                          ![p].post = Store(tables, schemas, arrays)]
            /\ mu' = Unlock(mu, p)
            /\ UNCHANGED schemas
       ELSE /\ proc' = [proc EXCEPT
                          ![p].pc = "upd_col", ![p].table = tables[proc[p].name],
                          ![p].i = 1, ![p].f = 1,
                          ![p].pre = Store(tables, schemas, arrays)]
            /\ schemas' = [schemas EXCEPT ![tables[proc[p].name]].RowCount =
                              proc[p].rowCount]
            /\ UNCHANGED mu
    /\ UNCHANGED <<tables, arrays, issued, versions>>
    /\ UNCHANGED planVars

\* A lookup that takes some entry of columnStats for every column.
LookupAny(columnStats, name) ==
    IF columnStats = <<>> THEN [has |-> FALSE]
    ELSE [has |-> TRUE,
          stats |-> columnStats[CHOOSE c \in DOMAIN columnStats : TRUE]]

\* stats, hasStats := columnStats[col.Name]
LookupStats(columnStats, name) ==
    IF name \in DOMAIN columnStats
    THEN [has |-> TRUE, stats |-> columnStats[name]]
    ELSE [has |-> FALSE]

\* One assignment of the loop over table.Columns: field f of column i, or the
\* step to the next column when columnStats has no entry for column i.
UpdateColumn(p) ==
    /\ proc[p].pc = "upd_col"
    /\ proc[p].i <= Len(arrays[schemas[proc[p].table].Columns])
    /\ LET a == schemas[proc[p].table].Columns
           i == proc[p].i
           f == proc[p].f
           found == LookupStats(proc[p].columnStats, arrays[a][i].Name)
       IN IF found.has
          THEN /\ arrays' = [arrays EXCEPT ![a][i][StatFields[f]] =
                                found.stats[StatFields[f]]]
               /\ proc' = [proc EXCEPT
                             ![p].i = IF f = Len(StatFields) THEN i + 1 ELSE i,
                             ![p].f = IF f = Len(StatFields) THEN 1 ELSE f + 1]
          ELSE /\ proc' = [proc EXCEPT ![p].i = i + 1]
               /\ UNCHANGED arrays
    /\ UNCHANGED <<tables, schemas, mu, issued, versions>>
    /\ UNCHANGED planVars

\* The loop has ended: return nil and the deferred Unlock.
UpdateReturn(p) ==
    /\ proc[p].pc = "upd_col"
    /\ proc[p].i > Len(arrays[schemas[proc[p].table].Columns])
    /\ proc' = [proc EXCEPT ![p].pc = "idle", ![p].err = "",
                            ![p].post = Store(tables, schemas, arrays)]
    /\ versions' = [versions EXCEPT ![proc[p].name] =
                      Append(@, Version("update",
                                        Record(schemas, arrays, proc[p].table)))]
    /\ mu' = Unlock(mu, p)
    /\ UNCHANGED <<tables, schemas, arrays, issued>>
    /\ UNCHANGED planVars

\* ---- GetColumnStats and EstimateSelectivity

Fraction(num, den) == [num |-> num, den |-> den]

\* The switch of EstimateSelectivity on the operator.
SelectivityFor(operator, colStats) ==
    CASE operator = "=" ->
            IF colStats.NDV # NULL /\ colStats.NDV > 0
            THEN Fraction(1, colStats.NDV) ELSE Fraction(1, 10)
      [] operator \in {"<", ">", "<=", ">="} -> Fraction(33, 100)
      [] operator = "LIKE" -> Fraction(1, 10)
      [] OTHER -> Fraction(1, 2)

\* One iteration of the loop over table.Columns of the copy GetTable
\* returned, made without the lock: col is a copy of element i.
ColumnLoop(p) ==
    /\ proc[p].pc = "gcs_loop"
    /\ LET cols == arrays[schemas[proc[p].table].Columns]
           i == proc[p].i
       IN IF i > Len(cols)
          THEN proc' = [proc EXCEPT
                          ![p].pc = "idle", ![p].err = "ColumnNotFound",
                          ![p].endVer = Len(versions[proc[p].name])]
          ELSE IF cols[i].Name = proc[p].col
          THEN proc' = [proc EXCEPT
                          ![p].pc = "idle", ![p].res = cols[i],
                          ![p].sel = IF proc[p].op = "EstimateSelectivity"
                                     THEN SelectivityFor(proc[p].oper, cols[i])
                                     ELSE Nil,
                          ![p].endVer = Len(versions[proc[p].name])]
          ELSE proc' = [proc EXCEPT ![p].i = i + 1]
    /\ UNCHANGED <<tables, schemas, arrays, mu, issued, versions>>
    /\ UNCHANGED planVars

\* The steps of a request that is being served.
Serve(p) ==
    \/ AddTableLock(p) \/ AddTableBody(p)
    \/ GetTableRLock(p) \/ GetTableBody(p) \/ Observe(p)
    \/ GetAllTablesRLock(p) \/ GetAllTablesBody(p)
    \/ UpdateLock(p) \/ UpdateLookup(p) \/ UpdateColumn(p) \/ UpdateReturn(p)
    \/ ColumnLoop(p)

\* ------------------------------------- generateID under concurrent calls

NumHandlers == 2     \* optimize requests served at the same time
IdsPerCall == 2      \* node ids one optimize call generates

Handlers == 1..NumHandlers

\* OptimizeHandler goroutines that have not generated an id yet.
GenIdle == [p \in Handlers |-> [pc |-> "call", reg |-> 0, ids |-> <<>>]]

\* idCounter++ is a load, an add and a store; no lock or atomic guards it.
GenLoad(p) ==
    /\ gen[p].pc = "call"
    /\ Len(gen[p].ids) < IdsPerCall
    /\ gen' = [gen EXCEPT ![p].pc = "inc", ![p].reg = idCounter]
    /\ UNCHANGED <<heap, idCounter, input, call, snapIn, snapOut, writes>>
    /\ UNCHANGED catVars

GenStore(p) ==
    /\ gen[p].pc = "inc"
    /\ idCounter' = gen[p].reg + 1
    /\ gen' = [gen EXCEPT ![p].pc = "fmt"]
    /\ UNCHANGED <<heap, input, call, snapIn, snapOut, writes>>
    /\ UNCHANGED catVars

\* fmt.Sprintf("node_%d", idCounter) reads the counter again.
GenFormat(p) ==
    /\ gen[p].pc = "fmt"
    /\ gen' = [gen EXCEPT ![p].pc = "call", ![p].ids = Append(@, idCounter)]
    /\ UNCHANGED <<heap, idCounter, input, call, snapIn, snapOut, writes>>
    /\ UNCHANGED catVars

\* ------------------------------------------------ a rule that fails

MaxFault == 5        \* the latest rule application of a call that may fail

\* An optimize call in which the k-th application of a rule returns an error
\* (a call that makes fewer applications returns as usual).
CallOptimizeRuleFailing ==
    /\ call.op = "none"
    /\ \E k \in 1..MaxFault :
          Returned("rule", OptimizeWithRules([Mem EXCEPT !.fault = k], input))

CallOptimizeCostFailing ==
    /\ call.op = "none"
    /\ \E k \in 1..MaxFault :
          Returned("cost", OptimizeWithCost([Mem EXCEPT !.fault = k], input))

\* ------------------------------------------------ malformed request plans

MaxWrap == 1         \* well-formed operators above a malformed node

\* Request plans that break the arity of their node type: a unary operator
\* or a join without children, a join with one child, and these below
\* well-formed operators.
MalformedNodes ==
    {Shape(u[1], u[2], <<>>) : u \in UnaryKinds}
    \cup {Shape("join", jt, <<>>) : jt \in JoinKinds}
    \cup {Shape("join", jt, <<Shape("scan", "a", <<>>)>>) : jt \in JoinKinds}

RECURSIVE Wrapped(_)
Wrapped(n) ==
    IF n = 0 THEN MalformedNodes
    ELSE {Shape(u[1], u[2], <<c>>) : u \in UnaryKinds, c \in Wrapped(n - 1)}
         \cup {Shape("join", jt, <<Shape("scan", "a", <<>>), c>>) :
                 jt \in JoinKinds, c \in Wrapped(n - 1)}
         \cup {Shape("join", jt, <<c, Shape("scan", "b", <<>>)>>) :
                 jt \in JoinKinds, c \in Wrapped(n - 1)}

MalformedShapes == UNION {Wrapped(n) : n \in 0..MaxWrap}

\* The plan ShouldBindJSON decodes from a request body: every node has the
\* children the body gives it, whatever its node type.
RECURSIVE Decode(_, _), DecodeChildren(_, _, _, _)
Decode(st, s) ==
    Let(DecodeChildren(st, s.cs, 1, <<>>), LAMBDA c :
    SetField(BuildNode(c.st, s, c.refs \o <<NULL, NULL>>), "Children", c.refs))

DecodeChildren(st, shapes, i, acc) ==
    IF i > Len(shapes) THEN [st |-> st, refs |-> acc]
    ELSE Let(Decode(st, shapes[i]), LAMBDA c :
         DecodeChildren(c.st, shapes, i + 1, Append(acc, c.ref)))

MalformedInit ==
    \E s \in MalformedShapes : PlanBuilt(Decode([h |-> <<>>, idc |-> 0], s), TRUE)


\* ------------------------------------ the optimizer next to the catalog

\* Row counts of two tables the catalog holds besides t.
SmallRows == 100
BigRows == 1000000

\* The catalog holds t, small and big, added before the requests considered
\* here.
SharedCatalogInit ==
    /\ arrays = <<PostedColumns, PostedColumns, PostedColumns>>
    /\ schemas = <<TableSchema("t", 1, PostedRowCount, PostedIndexes),
                   TableSchema("small", 2, SmallRows, PostedIndexes),
                   TableSchema("big", 3, BigRows, PostedIndexes)>>
    /\ tables = [n \in {"t", "small", "big"} |->
                   CASE n = "t" -> 1 [] n = "small" -> 2 [] n = "big" -> 3]
    /\ mu = Unlocked
    /\ proc = [p \in Procs |-> Idle]
    /\ issued = 0
    /\ versions = [n \in TableNames |->
                     IF n = "t"
                     THEN <<Version("add", Record(schemas, arrays, 1))>>
                     ELSE <<>>]

\* Request plans over the catalog's tables: SELECT * over t or u, and joins
\* of small and big.
SharedShapes ==
    {Shape("project", "*", <<Shape("scan", tb, <<>>)>>) : tb \in TableNames}
    \cup {Shape("join", jt, <<Shape("scan", ts[1], <<>>),
                              Shape("scan", ts[2], <<>>)>>) :
            jt \in JoinKinds, ts \in {<<"small", "big">>, <<"big", "small">>}}

\* OptimizeHandler has decoded the plan of the request.
SharedPlanInit ==
    \E s \in SharedShapes : PlanBuilt(Build([h |-> <<>>, idc |-> 0], s), TRUE)

\* What catalogMgr.GetTable(name) gives the cost model: the table's RowCount,
\* for the tables the catalog holds.
CatalogRows(tbls, schs) == [n \in DOMAIN tbls |-> schs[tbls[n]].RowCount]

\* NewCostBasedOptimizer(catalogMgr).Optimize(plan) with the shared catalog;
\* GetTable takes the read lock for every Scan.
CallOptimizeWithCatalog ==
    /\ call.op = "none"
    /\ CanRLock(mu)
    /\ Returned("catalog", CostBasedOptimize(Mem, CatalogRows(tables, schemas), input))

\* ------------------------------------------------------ plan enumerator

\* EnumeratePlans takes the dynamic-programming path up to this many tables.
DPMaxTables == 4

\* An enumerator whose cap is the number of tables of the largest dynamic
\* programming.
maxPlansOfDP == DPMaxTables

\* NewPlanEnumerator: maxPlans.
maxPlans == 1000

\* st.costed counts the calls of pe.costModel.EstimateCost: n more of them.
Costed(st, n) == [st EXCEPT !.costed = @ + n]

\* The bit operations on the subset masks.
RECURSIVE BitAnd(_, _)
BitAnd(a, b) ==
    IF a = 0 \/ b = 0 THEN 0
    ELSE (a % 2) * (b % 2) + 2 * BitAnd(a \div 2, b \div 2)

RECURSIVE BitXor(_, _)
BitXor(a, b) ==
    IF a = 0 /\ b = 0 THEN 0
    ELSE ((a + b) % 2) + 2 * BitXor(a \div 2, b \div 2)

RECURSIVE popcount(_)
popcount(x) == IF x = 0 THEN 0 ELSE 1 + popcount(BitAnd(x, x - 1))

\* extractTables: the table names of the Scans, each once, in the order a
\* walk from the root, children left to right, first meets them.
RECURSIVE extractTablesRecursive(_, _, _), extractTablesOfChildren(_, _, _, _)
extractTablesRecursive(h, plan, tbls) ==
    IF plan = NULL THEN tbls
    ELSE extractTablesOfChildren(
             h, h[plan].Children, 1,
             IF /\ h[plan].NodeType = "scan"
                /\ h[plan].TableName # ""
                /\ Count(tbls, h[plan].TableName) = 0
             THEN Append(tbls, h[plan].TableName) ELSE tbls)

extractTablesOfChildren(h, children, i, tbls) ==
    IF i > Len(children) THEN tbls
    ELSE extractTablesOfChildren(h, children, i + 1,
                                 extractTablesRecursive(h, children[i], tbls))

extractTables(h, plan) == extractTablesRecursive(h, plan, <<>>)

\* getTableCardinality
getTableCardinality(cat, tableName) ==
    IF tableName \in DOMAIN cat THEN cat[tableName] ELSE UnknownTableRows

\* The names a column expression of a request can be qualified with, and its
\* column names.
Qualifiers == {"a", "b", "c", "d", "e", "l", "r"}
ColumnNames == {"id", "x", "y", "z"}

\* extractTableFromExpression: the part before the dot of a column
\* expression whose value has exactly one dot.
extractTableFromExpression(h, expr) ==
    IF expr = NULL \/ h[expr].Type # "column" THEN ""
    ELSE IF \E q \in Qualifiers, c \in ColumnNames : h[expr].Value = q \o "." \o c
         THEN CHOOSE q \in Qualifiers :
                  \E c \in ColumnNames : h[expr].Value = q \o "." \o c
         ELSE ""

\* estimateJoinSelectivity, in percent.
estimateJoinSelectivity(h, condition) ==
    IF condition = NULL THEN 10
    ELSE CASE h[condition].Operator = "=" -> 10
           [] h[condition].Operator \in {"<", ">", "<=", ">="} -> 33
           [] OTHER -> 50

JoinEdge(left, right, selectivity, joinType, condition) ==
    [Left |-> left, Right |-> right, Selectivity |-> selectivity,
     JoinType |-> joinType, Condition |-> condition]

\* extractJoinConditions: one edge for every Join whose condition names a
\* table on both sides, the Join before the Joins below it.
RECURSIVE extractJoinConditions(_, _, _), extractJoinConditionsOfChildren(_, _, _, _)
extractJoinConditions(h, plan, edges) ==
    IF plan = NULL THEN edges
    ELSE extractJoinConditionsOfChildren(
             h, h[plan].Children, 1,
             IF /\ h[plan].NodeType = "join"
                /\ h[plan].JoinCondition # NULL
                /\ extractTableFromExpression(h, h[h[plan].JoinCondition].Left) # ""
                /\ extractTableFromExpression(h, h[h[plan].JoinCondition].Right) # ""
             THEN Append(edges,
                         JoinEdge(extractTableFromExpression(
                                      h, h[h[plan].JoinCondition].Left),
                                  extractTableFromExpression(
                                      h, h[h[plan].JoinCondition].Right),
                                  estimateJoinSelectivity(h, h[plan].JoinCondition),
                                  h[plan].JoinType, h[plan].JoinCondition))
             ELSE edges)

extractJoinConditionsOfChildren(h, children, i, edges) ==
    IF i > Len(children) THEN edges
    ELSE extractJoinConditionsOfChildren(
             h, children, i + 1, extractJoinConditions(h, children[i], edges))

buildJoinGraph(h, cat, plan, tbls) ==
    [Tables |-> [i \in DOMAIN tbls |->
                   [Name |-> tbls[i],
                    Cardinality |-> getTableCardinality(cat, tbls[i])]],
     Edges |-> extractJoinConditions(h, plan, <<>>)]

\* generateSubsets: the masks with size bits among the lowest n, in the order
\* the recursion appends them.
RECURSIVE generateSubsetsRecursive(_, _, _, _), generateSubsetsFrom(_, _, _, _)
generateSubsetsRecursive(start, n, size, current) ==
    IF size = 0 THEN <<current>>
    ELSE generateSubsetsFrom(start, n, size, current)

generateSubsetsFrom(i, n, size, current) ==
    IF i >= n THEN <<>>
    ELSE generateSubsetsRecursive(i + 1, n, size - 1, current + 2 ^ i)
         \o generateSubsetsFrom(i + 1, n, size, current)

generateSubsets(n, size) == generateSubsetsRecursive(0, n, size, 0)

\* maskToTables: the tables whose bit is set (tables[i + 1] has bit i).
maskToTables(mask, tbls) ==
    SelectSeq(tbls, LAMBDA t :
        \E i \in DOMAIN tbls : tbls[i] = t /\ (mask \div 2 ^ (i - 1)) % 2 = 1)

contains(slice, item) == \E i \in DOMAIN slice : slice[i] = item

Connects(edge, leftTables, rightTables) ==
    \/ contains(leftTables, edge.Left) /\ contains(rightTables, edge.Right)
    \/ contains(leftTables, edge.Right) /\ contains(rightTables, edge.Left)

\* findJoinEdge: the first edge between the two sides, nil when there is
\* none.
findJoinEdge(leftMask, rightMask, joinGraph, tbls) ==
    IF \E i \in DOMAIN joinGraph.Edges :
          Connects(joinGraph.Edges[i], maskToTables(leftMask, tbls),
                   maskToTables(rightMask, tbls))
    THEN joinGraph.Edges[
             CHOOSE i \in DOMAIN joinGraph.Edges :
                /\ Connects(joinGraph.Edges[i], maskToTables(leftMask, tbls),
                            maskToTables(rightMask, tbls))
                /\ \A j \in 1..(i - 1) :
                      ~Connects(joinGraph.Edges[j], maskToTables(leftMask, tbls),
                                maskToTables(rightMask, tbls))]
    ELSE Nil

\* swapJoinCondition: a new JoinCondition with the two expressions, which it
\* shares with the old one, on the other sides.
swapJoinCondition(st, condition) ==
    IF condition = NULL THEN [st |-> st, ref |-> NULL]
    ELSE Alloc(st, [k |-> "jc", Left |-> st.h[condition].Right,
                    Right |-> st.h[condition].Left,
                    Operator |-> st.h[condition].Operator])

\* bestPlan and bestCost of a search; bestCost is +Inf while bestPlan is nil.
NoBest == [plan |-> NULL, cost |-> 0]

\* if cost.TotalCost < bestCost { bestCost = cost.TotalCost; bestPlan = plan }
Better(best, plan, cost) ==
    IF best.plan = NULL \/ cost < best.cost
    THEN [plan |-> plan, cost |-> cost]
    ELSE best

\* The body of the loop of findBestJoinForSubset for one leftMask: the join
\* of dp[leftMask] and dp[rightMask], then the join with the sides swapped.
JoinCandidates(st, cat, x, leftMask, best) ==
    IF \/ BitXor(x.subset, leftMask) = 0
       \/ leftMask = x.subset
       \/ leftMask \notin DOMAIN x.dp
       \/ BitXor(x.subset, leftMask) \notin DOMAIN x.dp
       \/ findJoinEdge(leftMask, BitXor(x.subset, leftMask),
                       x.joinGraph, x.tables) = Nil
    THEN [st |-> st, best |-> best]
    ELSE
    Let(findJoinEdge(leftMask, BitXor(x.subset, leftMask), x.joinGraph, x.tables),
        LAMBDA joinEdge :
    Let(NewJoinNode(st, x.dp[leftMask], x.dp[BitXor(x.subset, leftMask)],
                    joinEdge.JoinType, joinEdge.Condition), LAMBDA joinPlan :
    Let(Better(best, joinPlan.ref,
               EstimateCost(joinPlan.st.h, cat, joinPlan.ref).TotalCost),
        LAMBDA b1 :
    Let(swapJoinCondition(joinPlan.st, joinEdge.Condition), LAMBDA sc :
    Let(NewJoinNode(sc.st, x.dp[BitXor(x.subset, leftMask)], x.dp[leftMask],
                    joinEdge.JoinType, sc.ref), LAMBDA swappedJoin :
    [st |-> Costed(swappedJoin.st, 2),
     best |-> Better(b1, swappedJoin.ref,
                     EstimateCost(swappedJoin.st.h, cat,
                                  swappedJoin.ref).TotalCost)])))))

\* for leftMask := subset; leftMask > 0; leftMask = (leftMask - 1) & subset
RECURSIVE BestJoinLoop(_, _, _, _, _)
BestJoinLoop(st, cat, x, leftMask, best) ==
    IF leftMask <= 0 THEN [st |-> st, plan |-> best.plan]
    ELSE Let(JoinCandidates(st, cat, x, leftMask, best), LAMBDA c :
         BestJoinLoop(c.st, cat, x, BitAnd(leftMask - 1, x.subset), c.best))

findBestJoinForSubset(st, cat, subset, dp, joinGraph, tbls) ==
    BestJoinLoop(st, cat,
                 [subset |-> subset, dp |-> dp, joinGraph |-> joinGraph,
                  tables |-> tbls],
                 subset, NoBest)

\* dp[mask] = plan
DpPut(dp, mask, plan) ==
    [m \in DOMAIN dp \cup {mask} |-> IF m = mask THEN plan ELSE dp[m]]

\* for i := 0; i < n; i++ { dp[1 << i] = NewScanNode(tables[i], "") }
RECURSIVE DpBase(_, _, _, _)
DpBase(st, tbls, i, dp) ==
    IF i >= Len(tbls) THEN [st |-> st, dp |-> dp]
    ELSE Let(NewScanNode(st, tbls[i + 1], ""), LAMBDA s :
         DpBase(s.st, tbls, i + 1, DpPut(dp, 2 ^ i, s.ref)))

\* The loop over the subsets of one size.
RECURSIVE DpSubsets(_, _, _, _, _, _, _)
DpSubsets(st, cat, subsets, i, dp, joinGraph, tbls) ==
    IF i > Len(subsets) THEN [st |-> st, dp |-> dp]
    ELSE Let(findBestJoinForSubset(st, cat, subsets[i], dp, joinGraph, tbls),
             LAMBDA b :
         DpSubsets(b.st, cat, subsets, i + 1,
                   IF b.plan # NULL THEN DpPut(dp, subsets[i], b.plan) ELSE dp,
                   joinGraph, tbls))

\* for size := 2; size <= n; size++
RECURSIVE DpSizes(_, _, _, _, _, _)
DpSizes(st, cat, size, dp, joinGraph, tbls) ==
    IF size > Len(tbls) THEN [st |-> st, dp |-> dp]
    ELSE Let(DpSubsets(st, cat, generateSubsets(Len(tbls), size), 1, dp,
                       joinGraph, tbls), LAMBDA d :
         DpSizes(d.st, cat, size + 1, d.dp, joinGraph, tbls))

\* The table dp of generateDPJoinOrders when its loops are done.
DpTable(st, cat, joinGraph) ==
    Let([i \in DOMAIN joinGraph.Tables |-> joinGraph.Tables[i].Name], LAMBDA tbls :
    Let(DpBase(st, tbls, 0, <<>>), LAMBDA base :
    DpSizes(base.st, cat, 2, base.dp, joinGraph, tbls)))

\* The keys of dp that `for mask, plan := range dp` passes on: those of at
\* least n-1 tables.
NearComplete(dp, n) == {m \in DOMAIN dp : popcount(m) >= n - 1}

\* The orders in which a range over a Go map can visit the keys in S.
MapOrders(S) ==
    {f \in [1..Cardinality(S) -> S] : \A i, j \in DOMAIN f : f[i] = f[j] => i = j}

\* removeDuplicatePlans: the first plan of every signature.
removeDuplicatePlans(h, plans) ==
    SelectSeq([i \in DOMAIN plans |-> [i |-> i, p |-> plans[i]]],
              LAMBDA e : \A j \in 1..(e.i - 1) :
                  getPlanSignature(h, plans[j]) # getPlanSignature(h, e.p))

Plans(h, entries) == [i \in DOMAIN entries |-> entries[i].p]

\* generateDPJoinOrders after the table is filled: dp[fullMask] first, then
\* the entries of at least n-1 tables as the range over the map yields them
\* (order), without the duplicates.
DpPlans(h, dp, n, order) ==
    IF (2 ^ n) - 1 \in DOMAIN dp
    THEN Plans(h, removeDuplicatePlans(
                      h, <<dp[(2 ^ n) - 1]>> \o [i \in DOMAIN order |-> dp[order[i]]]))
    ELSE <<>>

\* The Metadata entries of the physical alternatives of a node, in the order
\* generatePhysicalAlternatives appends them; indexes are table.Indexes of
\* the catalog's tables.
AlternativeTags(n, indexes) ==
    CASE n.NodeType = "join" ->
            << <<<<"physical_operator", "hash_join">>>>,
               <<<<"physical_operator", "sort_merge_join">>>>,
               <<<<"physical_operator", "nested_loop_join">>>> >>
      [] n.NodeType = "aggregate" ->
            << <<<<"physical_operator", "hash_aggregate">>>>,
               <<<<"physical_operator", "sort_aggregate">>>> >>
      [] n.NodeType = "sort" ->
            << <<<<"physical_operator", "quicksort">>>>,
               <<<<"physical_operator", "external_sort">>>> >>
      [] n.NodeType = "scan" ->
            << <<<<"scan_type", "sequential">>>> >>
            \o (IF n.TableName \in DOMAIN indexes /\ Len(indexes[n.TableName]) > 0
                THEN << << <<"scan_type", "index">>,
                           <<"index_name", indexes[n.TableName][1].Name>> >> >>
                ELSE <<>>)
      [] OTHER -> <<>>

RECURSIVE SetAllMetadata(_, _, _, _)
SetAllMetadata(st, plan, tags, i) ==
    IF i > Len(tags) THEN st
    ELSE SetAllMetadata(SetMetadata(st, plan, tags[i][1], tags[i][2]), plan, tags,
                        i + 1)

\* planCopy.Clone() with its Metadata entries set, once for every alternative.
RECURSIVE TaggedClones(_, _, _, _, _)
TaggedClones(st, planCopy, alts, i, acc) ==
    IF i > Len(alts) THEN [st |-> st, plans |-> acc]
    ELSE Let(Clone(st, planCopy), LAMBDA c :
         TaggedClones(SetAllMetadata(c.st, c.ref, alts[i], 1), planCopy, alts,
                      i + 1, Append(acc, c.ref)))

\* for _, baseAlt := range alternatives: a clone of baseAlt with child i
\* replaced by childAlt (bases: the slice as it was when the loop began).
RECURSIVE WithChildAlternative(_, _, _, _, _, _)
WithChildAlternative(st, i, childAlt, bases, b, acc) ==
    IF b > Len(bases) THEN [st |-> st, plans |-> acc]
    ELSE Let(Clone(st, bases[b]), LAMBDA newPlan :
         IF i <= Len(newPlan.st.h[newPlan.ref].Children)
         THEN WithChildAlternative(
                  [newPlan.st EXCEPT !.h[newPlan.ref].Children[i] = childAlt],
                  i, childAlt, bases, b + 1, Append(acc, newPlan.ref))
         ELSE WithChildAlternative(newPlan.st, i, childAlt, bases, b + 1, acc))

\* for _, childAlt := range childAlternatives { if childAlt != child {...} }
RECURSIVE ChildAlternatives(_, _, _, _, _, _)
ChildAlternatives(st, i, child, childAlts, k, acc) ==
    IF k > Len(childAlts) THEN [st |-> st, plans |-> acc]
    ELSE IF childAlts[k] = child
         THEN ChildAlternatives(st, i, child, childAlts, k + 1, acc)
         ELSE Let(WithChildAlternative(st, i, childAlts[k], acc, 1, acc), LAMBDA w :
              ChildAlternatives(w.st, i, child, childAlts, k + 1, w.plans))

RECURSIVE generatePhysicalAlternatives(_, _, _), AlternativesOfChildren(_, _, _, _, _)
generatePhysicalAlternatives(st, indexes, plan) ==
    IF plan = NULL THEN [st |-> st, plans |-> <<>>]
    ELSE Let(Clone(st, plan), LAMBDA planCopy :
         Let(TaggedClones(planCopy.st, planCopy.ref,
                          AlternativeTags(st.h[plan], indexes), 1, <<plan>>),
             LAMBDA own :
         Let(AlternativesOfChildren(own.st, indexes, plan, 1, own.plans), LAMBDA all :
         [st |-> all.st,
          plans |-> Plans(all.st.h, removeDuplicatePlans(all.st.h, all.plans))])))

AlternativesOfChildren(st, indexes, plan, i, acc) ==
    IF i > Len(st.h[plan].Children) THEN [st |-> st, plans |-> acc]
    ELSE Let(generatePhysicalAlternatives(st, indexes, st.h[plan].Children[i]),
             LAMBDA ca :
         Let(ChildAlternatives(ca.st, i, st.h[plan].Children[i], ca.plans, 1, acc),
             LAMBDA r :
         AlternativesOfChildren(r.st, indexes, plan, i + 1, r.plans)))

\* The loop of enumerateWithDP: the physical alternatives of every plan.
RECURSIVE AllAlternatives(_, _, _, _, _)
AllAlternatives(st, indexes, plans, i, acc) ==
    IF i > Len(plans) THEN [st |-> st, plans |-> acc]
    ELSE Let(generatePhysicalAlternatives(st, indexes, plans[i]), LAMBDA a :
         AllAlternatives(a.st, indexes, plans, i + 1, acc \o a.plans))

\* The loop of selectBestPlan.
RECURSIVE BestOf(_, _, _, _, _, _)
BestOf(h, cat, plans, i, best, evaluatedCount) ==
    IF i > Len(plans) \/ evaluatedCount >= maxPlans
    THEN [best |-> best, evaluatedCount |-> evaluatedCount]
    ELSE BestOf(h, cat, plans, i + 1,
                Better(best, plans[i], EstimateCost(h, cat, plans[i]).TotalCost),
                evaluatedCount + 1)

EnumerationResult(bestPlan, allPlans, bestCost, strategy, evaluated) ==
    [BestPlan |-> bestPlan, AllPlans |-> allPlans, PlanCount |-> Len(allPlans),
     BestCost |-> bestCost, EnumStrategy |-> strategy,
     SearchSpace |-> Len(allPlans),
     PruningStats |-> [PlansGenerated |-> Len(allPlans), PlansPruned |-> 0,
                       PlansEvaluated |-> evaluated]]

\* selectBestPlan: err "no plans to evaluate" or "no valid plan found", or
\* the result.
selectBestPlan(st, cat, plans, strategy) ==
    IF Len(plans) = 0 THEN [st |-> st, err |-> TRUE, enum |-> Nil]
    ELSE Let(BestOf(st.h, cat, plans, 1, NoBest, 0), LAMBDA b :
         IF b.best.plan = NULL
         THEN [st |-> Costed(st, b.evaluatedCount), err |-> TRUE, enum |-> Nil]
         ELSE [st |-> Costed(st, b.evaluatedCount), err |-> FALSE,
               enum |-> EnumerationResult(b.best.plan, plans, b.best.cost,
                                          strategy, b.evaluatedCount)])

\* EnumeratePlans up to the range over the map dp: the tables, and for two to
\* DPMaxTables tables the table dp of generateDPJoinOrders.
EnumerationTable(st, cat, plan) ==
    Let(extractTables(st.h, plan), LAMBDA tbls :
    IF Len(tbls) <= 1
    THEN [st |-> st, tables |-> tbls, dp |-> <<>>]
    ELSE Let(DpTable(st, cat, buildJoinGraph(st.h, cat, plan, tbls)), LAMBDA d :
         [st |-> d.st, tables |-> tbls, dp |-> d.dp]))

\* The keys the range over dp yields to generateDPJoinOrders, which ranges
\* over it only when dp[fullMask] exists.
RangedKeys(t) ==
    IF (2 ^ Len(t.tables)) - 1 \in DOMAIN t.dp
    THEN NearComplete(t.dp, Len(t.tables)) ELSE {}

\* EnumeratePlans from there on, the range yielding the keys in this order:
\* the single-table path, or the rest of enumerateWithDP.
EnumerationFrom(t, cat, indexes, plan, order) ==
    IF Len(t.tables) <= 1
    THEN Let(generatePhysicalAlternatives(t.st, indexes, plan), LAMBDA a :
         selectBestPlan(a.st, cat, <<plan>> \o a.plans, "single_table"))
    ELSE Let(AllAlternatives(t.st, indexes,
                             DpPlans(t.st.h, t.dp, Len(t.tables), order), 1, <<>>),
             LAMBDA a :
         selectBestPlan(a.st, cat, a.plans, "dynamic_programming"))

\* ----------------------------------------------- the greedy join orders

\* The results sort.Slice can leave for seq: the orders of its elements in
\* which no element is less than one before it.
SortOrders(seq, Less(_, _)) ==
    {[i \in DOMAIN seq |-> seq[p[i]]] :
        p \in {q \in MapOrders(DOMAIN seq) :
                  \A i, j \in DOMAIN seq : i < j => ~Less(seq[q[j]], seq[q[i]])}}

\* createDefaultJoinCondition
createDefaultJoinCondition(st, leftTable, rightTable) ==
    Let(NewColumnExpression(st, leftTable,
                            IF leftTable # "" THEN leftTable \o "_id" ELSE "id"),
        LAMBDA lc :
    Let(NewColumnExpression(lc.st, rightTable,
                            IF rightTable # "" THEN rightTable \o "_id" ELSE "id"),
        LAMBDA rc :
    Alloc(rc.st, [k |-> "jc", Left |-> lc.ref, Right |-> rc.ref, Operator |-> "="])))

Touches(edge, tableName) == edge.Left = tableName \/ edge.Right = tableName

\* findJoinConditionForTables: the condition of the first edge with the table
\* at one of its ends, nil when there is none.
findJoinConditionForTables(tableName, joinGraph) ==
    IF \E i \in DOMAIN joinGraph.Edges : Touches(joinGraph.Edges[i], tableName)
    THEN joinGraph.Edges[
             CHOOSE i \in DOMAIN joinGraph.Edges :
                /\ Touches(joinGraph.Edges[i], tableName)
                /\ \A j \in 1..(i - 1) : ~Touches(joinGraph.Edges[j], tableName)
         ].Condition
    ELSE NULL

\* The edges (their indexes) with the table at one of their ends.
EdgesOf(tableName, joinGraph) ==
    {i \in DOMAIN joinGraph.Edges : Touches(joinGraph.Edges[i], tableName)}

countJoinsForTable(tableName, joinGraph) ==
    Cardinality(EdgesOf(tableName, joinGraph))

RECURSIVE SumSelectivity(_, _)
SumSelectivity(joinGraph, S) ==
    IF S = {} THEN 0
    ELSE Let(CHOOSE i \in S : TRUE, LAMBDA i :
         joinGraph.Edges[i].Selectivity + SumSelectivity(joinGraph, S \ {i}))

\* planContainsTable
planContainsTable(h, plan, tableName) ==
    \E n \in PlanNodes(h, plan) :
        h[n].NodeType = "scan" /\ h[n].TableName = tableName

\* The rest of the loop of createCardinalityBasedJoinOrder and of
\* createMixedHeuristicJoinOrder, from the i-th table of the sorted slice on:
\* a Scan of the table, joined to the plan so far by an inner join on the
\* condition of the first edge of the table, or on the default condition.
RECURSIVE JoinInOrder(_, _, _, _, _)
JoinInOrder(st, joinGraph, sorted, i, currentPlan) ==
    IF i > Len(sorted) THEN [st |-> st, ref |-> currentPlan]
    ELSE Let(NewScanNode(st, sorted[i].Name, ""), LAMBDA tablePlan :
         IF i = 1
         THEN JoinInOrder(tablePlan.st, joinGraph, sorted, i + 1, tablePlan.ref)
         ELSE Let(IF findJoinConditionForTables(sorted[i].Name, joinGraph) = NULL
                  THEN createDefaultJoinCondition(tablePlan.st, "", sorted[i].Name)
                  ELSE [st |-> tablePlan.st,
                        ref |-> findJoinConditionForTables(sorted[i].Name,
                                                           joinGraph)],
                  LAMBDA joinCondition :
              Let(NewJoinNode(joinCondition.st, currentPlan, tablePlan.ref, "inner",
                              joinCondition.ref), LAMBDA j :
              JoinInOrder(j.st, joinGraph, sorted, i + 1, j.ref))))

\* tables[i].Cardinality < tables[j].Cardinality
LessCardinality(t, u) == t.Cardinality < u.Cardinality

\* createCardinalityBasedJoinOrder, sort.Slice leaving the tables as sorted.
createCardinalityBasedJoinOrder(st, joinGraph, sorted) ==
    IF Len(joinGraph.Tables) < 2 THEN [st |-> st, ref |-> NULL]
    ELSE JoinInOrder(st, joinGraph, sorted, 1, NULL)

\* createSizeBasedJoinOrder
createSizeBasedJoinOrder(st, joinGraph, sorted) ==
    createCardinalityBasedJoinOrder(st, joinGraph, sorted)

\* The score of a table in createMixedHeuristicJoinOrder, in twelfths so
\* that it is an integer: 1000000 / cardinality, 100 for every join, and
\* 500 * (1 - average selectivity), the selectivities being in percent and
\* the average of no selectivity being 50.
Score(table, joinGraph) ==
    (IF table.Cardinality > 0 THEN (1000000 * 12) \div table.Cardinality ELSE 0)
    + countJoinsForTable(table.Name, joinGraph) * 100 * 12
    + (IF countJoinsForTable(table.Name, joinGraph) = 0
       THEN 250 * 12
       ELSE 500 * 12
            - (5 * 12 * SumSelectivity(joinGraph, EdgesOf(table.Name, joinGraph)))
                \div countJoinsForTable(table.Name, joinGraph))

\* scores[i].Score > scores[j].Score
LessScore(s, t) == s.Score > t.Score

Scores(joinGraph) ==
    [i \in DOMAIN joinGraph.Tables |->
        [Name |-> joinGraph.Tables[i].Name,
         Score |-> Score(joinGraph.Tables[i], joinGraph)]]

\* createMixedHeuristicJoinOrder, sort.Slice leaving the scores as sorted.
createMixedHeuristicJoinOrder(st, joinGraph, sorted) ==
    IF Len(joinGraph.Tables) < 2 THEN [st |-> st, ref |-> NULL]
    ELSE JoinInOrder(st, joinGraph, sorted, 1, NULL)

\* edges[i].Selectivity < edges[j].Selectivity
LessSelectivity(e, f) == e.Selectivity < f.Selectivity

\* The body of the loop of createSelectivityBasedJoinOrder for one edge.
JoinByEdge(st, edge, currentPlan) ==
    Let(NewScanNode(st, edge.Left, ""), LAMBDA leftPlan :
    Let(NewScanNode(leftPlan.st, edge.Right, ""), LAMBDA rightPlan :
    IF currentPlan = NULL
    THEN NewJoinNode(rightPlan.st, leftPlan.ref, rightPlan.ref, edge.JoinType,
                     edge.Condition)
    ELSE IF /\ planContainsTable(st.h, currentPlan, edge.Left)
            /\ ~planContainsTable(st.h, currentPlan, edge.Right)
    THEN NewJoinNode(rightPlan.st, currentPlan, rightPlan.ref, edge.JoinType,
                     edge.Condition)
    ELSE IF /\ planContainsTable(st.h, currentPlan, edge.Right)
            /\ ~planContainsTable(st.h, currentPlan, edge.Left)
    THEN NewJoinNode(rightPlan.st, currentPlan, leftPlan.ref, edge.JoinType,
                     edge.Condition)
    ELSE IF /\ ~planContainsTable(st.h, currentPlan, edge.Left)
            /\ ~planContainsTable(st.h, currentPlan, edge.Right)
    THEN Let(NewJoinNode(rightPlan.st, leftPlan.ref, rightPlan.ref, edge.JoinType,
                         edge.Condition), LAMBDA newJoin :
         Let(createDefaultJoinCondition(newJoin.st, edge.Left, edge.Right),
             LAMBDA dc :
         NewJoinNode(dc.st, currentPlan, newJoin.ref, "inner", dc.ref)))
    ELSE [st |-> rightPlan.st, ref |-> currentPlan]))

\* for _, edge := range edges; used: the keys of usedTables.
RECURSIVE JoinByEdges(_, _, _, _, _)
JoinByEdges(st, edges, i, currentPlan, used) ==
    IF i > Len(edges) THEN [st |-> st, ref |-> currentPlan, used |-> used]
    ELSE Let(JoinByEdge(st, edges[i], currentPlan), LAMBDA j :
         JoinByEdges(j.st, edges, i + 1, j.ref,
                     used \cup {edges[i].Left, edges[i].Right}))

\* for _, table := range joinGraph.Tables { if !usedTables[table.Name] ... }
RECURSIVE JoinUnused(_, _, _, _, _)
JoinUnused(st, tbls, i, currentPlan, used) ==
    IF i > Len(tbls) THEN [st |-> st, ref |-> currentPlan]
    ELSE IF tbls[i].Name \in used
    THEN JoinUnused(st, tbls, i + 1, currentPlan, used)
    ELSE Let(NewScanNode(st, tbls[i].Name, ""), LAMBDA tablePlan :
         IF currentPlan = NULL
         THEN JoinUnused(tablePlan.st, tbls, i + 1, tablePlan.ref, used)
         ELSE Let(createDefaultJoinCondition(tablePlan.st, "", tbls[i].Name),
                  LAMBDA dc :
              Let(NewJoinNode(dc.st, currentPlan, tablePlan.ref, "inner", dc.ref),
                  LAMBDA j :
              JoinUnused(j.st, tbls, i + 1, j.ref, used))))

\* createSelectivityBasedJoinOrder, sort.Slice leaving the edges as sorted.
createSelectivityBasedJoinOrder(st, joinGraph, sorted) ==
    IF Len(joinGraph.Tables) < 2 THEN [st |-> st, ref |-> NULL]
    ELSE Let(JoinByEdges(st, sorted, 1, NULL, {}), LAMBDA e :
         JoinUnused(e.st, joinGraph.Tables, 1, e.ref, e.used))

\* The results the four sorts of enumerateWithGreedy can leave: of the tables
\* by cardinality (twice), of the edges by selectivity, of the scores.
GreedySorts(joinGraph) ==
    [size : SortOrders(joinGraph.Tables, LessCardinality),
     selectivity : SortOrders(joinGraph.Edges, LessSelectivity),
     cardinality : SortOrders(joinGraph.Tables, LessCardinality),
     mixed : SortOrders(Scores(joinGraph), LessScore)]

\* The plans of enumerateWithGreedy that are not nil.
NonNil(plans) == SelectSeq(plans, LAMBDA p : p # NULL)

\* enumerateWithGreedy
enumerateWithGreedy(st, cat, indexes, plan, tbls, sorts) ==
    Let(buildJoinGraph(st.h, cat, plan, tbls), LAMBDA joinGraph :
    Let(createSizeBasedJoinOrder(st, joinGraph, sorts.size), LAMBDA p1 :
    Let(createSelectivityBasedJoinOrder(p1.st, joinGraph, sorts.selectivity),
        LAMBDA p2 :
    Let(createCardinalityBasedJoinOrder(p2.st, joinGraph, sorts.cardinality),
        LAMBDA p3 :
    Let(createMixedHeuristicJoinOrder(p3.st, joinGraph, sorts.mixed), LAMBDA p4 :
    Let(AllAlternatives(p4.st, indexes,
                        NonNil(<<p1.ref, p2.ref, p3.ref, p4.ref>>), 1, <<>>),
        LAMBDA a :
    selectBestPlan(a.st, cat, a.plans, "greedy")))))))

\* ---- the enumerator's requests

\* A query over the catalog's tables a, b, c, d, e: a Scan, or a Join whose
\* condition is on[1].id = on[2].id (with on[3], if given, in the place of
\* =), or that has no condition (on = <<>>).
Query(t, arg, on, cs) == [t |-> t, arg |-> arg, on |-> on, cs |-> cs]

ScanOf(tb) == Query("scan", tb, <<>>, <<>>)

TwoTables(jt) == Query("join", jt, <<"a", "b">>, <<ScanOf("a"), ScanOf("b")>>)

ThreeTables(jt1, jt2, x) ==
    Query("join", jt2, <<x, "c">>, <<TwoTables(jt1), ScanOf("c")>>)

FourTables(jt, x, y) ==
    Query("join", "inner", <<y, "d">>, <<ThreeTables(jt, "inner", x), ScanOf("d")>>)

\* Five tables, the conditions below the root being a.id = b.id,
\* b.id < c.id and c.id != d.id.
FiveTables(jt, on) ==
    Query("join", jt, on,
          <<Query("join", "inner", <<"c", "d", "!=">>,
                  <<Query("join", "inner", <<"b", "c", "<">>,
                          <<TwoTables(jt), ScanOf("c")>>),
                    ScanOf("d")>>),
            ScanOf("e")>>)

Queries ==
    {ScanOf("a")}
    \cup {TwoTables(jt) : jt \in JoinKinds}
    \cup {Query("join", "inner", on, <<ScanOf("a"), ScanOf("b")>>) :
             on \in {<<"l", "r">>, <<>>}}
    \cup {Query("join", "inner", on, <<TwoTables("inner"), ScanOf("c")>>) :
             on \in {<<"l", "r">>, <<>>}}
    \cup {ThreeTables(jt1, jt2, x) : jt1 \in JoinKinds, jt2 \in JoinKinds,
                                     x \in {"a", "b"}}
    \cup {FourTables(jt, "b", y) : jt \in JoinKinds, y \in {"a", "c"}}
    \cup {FiveTables(jt, on) :
             jt \in JoinKinds,
             on \in {<<"d", "e">>, <<"e", "a">>, <<"a", "e", "<">>, <<>>}}

RECURSIVE BuildQuery(_, _)
BuildQuery(st, q) ==
    IF q.t = "scan" THEN NewScanNode(st, q.arg, "")
    ELSE Let(BuildQuery(st, q.cs[1]), LAMBDA l :
         Let(BuildQuery(l.st, q.cs[2]), LAMBDA r :
         IF q.on = <<>> THEN NewJoinNode(r.st, l.ref, r.ref, q.arg, NULL) ELSE
         Let(NewColumnExpression(r.st, q.on[1], "id"), LAMBDA lc :
         Let(NewColumnExpression(lc.st, q.on[2], "id"), LAMBDA rc :
         Let(Alloc(rc.st, [k |-> "jc", Left |-> lc.ref, Right |-> rc.ref,
                           Operator |-> IF Len(q.on) = 3 THEN q.on[3] ELSE "="]),
             LAMBDA j :
         NewJoinNode(j.st, l.ref, r.ref, q.arg, j.ref))))))

EnumTables == <<"a", "b", "c", "d", "e">>

\* The row counts of a, b, c, d and e in the catalog.
RowCounts ==
    {<<10, 100, 50, 20, 200>>, <<100, 10, 20, 50, 5>>, <<50, 50, 50, 50, 50>>,
     <<100, 20, 10, 100, 30>>}

\* Those of the requests over more than DPMaxTables tables: at most two
\* tables have the same row count.
GreedyRowCounts ==
    {rows \in RowCounts :
        Cardinality({rows[i] : i \in DOMAIN rows}) >= Len(rows) - 1}

EnumPlanInit ==
    \E q \in Queries : PlanBuilt(BuildQuery([h |-> <<>>, idc |-> 0], q), FALSE)

\* The catalog holds a, b, c, d and e.
EnumCatalogInit ==
    \E rows \in RowCounts :
        /\ arrays = [i \in DOMAIN EnumTables |-> PostedColumns]
        /\ schemas = [i \in DOMAIN EnumTables |->
                        TableSchema(EnumTables[i], i, rows[i], PostedIndexes)]
        /\ tables = [n \in {EnumTables[i] : i \in DOMAIN EnumTables} |->
                       CHOOSE i \in DOMAIN EnumTables : EnumTables[i] = n]
        /\ mu = Unlocked
        /\ proc = [p \in Procs |-> Idle]
        /\ issued = 0
        /\ versions = [n \in TableNames |-> <<>>]

\* table.Indexes of the catalog's tables.
CatalogIndexes(tbls, schs) == [n \in DOMAIN tbls |-> schs[tbls[n]].Indexes]

EnumReturned(r) ==
    Returned("enum", [st |-> r.st, err |-> r.err, passes |-> 0,
                      plan |-> IF r.err THEN NULL ELSE r.enum.BestPlan,
                      explain |-> EmptyExplain, enum |-> r.enum])

\* NewPlanEnumerator(catalogMgr).EnumeratePlans(plan) on the shared catalog.
CallEnumeratePlans ==
    /\ call.op = "none"
    /\ CanRLock(mu)
    /\ IF Len(extractTables(heap, input)) <= DPMaxTables
       THEN \E t \in {EnumerationTable(Mem, CatalogRows(tables, schemas), input)} :
               \E order \in MapOrders(RangedKeys(t)) :
                  EnumReturned(EnumerationFrom(t, CatalogRows(tables, schemas),
                                               CatalogIndexes(tables, schemas),
                                               input, order))
       ELSE \E sorts \in GreedySorts(buildJoinGraph(
                                        heap, CatalogRows(tables, schemas), input,
                                        extractTables(heap, input))) :
               EnumReturned(enumerateWithGreedy(
                                Mem, CatalogRows(tables, schemas),
                                CatalogIndexes(tables, schemas), input,
                                extractTables(heap, input), sorts))

\* ------------------------------------------------- execution simulator

\* &ExecutionMetrics{OperatorMetrics: make(map...), Connector: "generic",
\* SimulationOnly: true}; CPUTime is in microseconds.
NewExecutionMetrics ==
    [ExecutionTime |-> 0, RowsProcessed |-> 0, RowsReturned |-> 0, CPUTime |-> 0,
     IOOperations |-> 0, MemoryUsed |-> 0, NetworkTraffic |-> 0,
     OperatorMetrics |-> <<>>, Connector |-> "generic", SimulationOnly |-> TRUE]

\* The rows a simulated operator takes for a node without estimate.
DefaultRows == 1000

\* simulateScan
simulateScan(h, plan, metrics) ==
    Let(IF h[plan].EstimatedRows # NULL THEN h[h[plan].EstimatedRows].v
        ELSE DefaultRows, LAMBDA estimatedRows :
    Let(IF estimatedRows \div 100 < 1 THEN 1 ELSE estimatedRows \div 100,
        LAMBDA pagesRead :
    [metrics EXCEPT
        !.IOOperations = @ + pagesRead,
        !.RowsProcessed = @ + estimatedRows,
        !.RowsReturned = @ + estimatedRows,
        !.MemoryUsed = @ + estimatedRows * 100,
        !.CPUTime = @ + estimatedRows * 10,
        !.OperatorMetrics =
            MapPut(@, <<h[plan].ID, "_scan">>,
                   [table_name |-> h[plan].TableName,
                    rows_scanned |-> estimatedRows,
                    pages_read |-> pagesRead,
                    scan_type |-> "sequential"])]))

\* GenericSimulator.SimulateExecution on a plan that is one Scan: simulateNode
\* has no child to visit and calls simulateScan; elapsed is
\* time.Since(startTime).
GenericSimulate(h, plan, elapsed) ==
    [simulateScan(h, plan, NewExecutionMetrics) EXCEPT !.ExecutionTime = elapsed]

\* applyPostgresOptimizations on a Scan: int64(float64(IOOperations) * 0.8)
applyPostgresOptimizations(h, plan, metrics) ==
    IF plan # NULL /\ h[plan].NodeType = "scan"
    THEN [metrics EXCEPT !.IOOperations = (@ * 8) \div 10]
    ELSE metrics

\* applyMongoOptimizations on a Scan
applyMongoOptimizations(h, plan, metrics) ==
    IF plan # NULL /\ h[plan].NodeType = "scan"
    THEN [metrics EXCEPT !.NetworkTraffic = @ + metrics.RowsProcessed * 300]
    ELSE metrics

\* SimulateExecution(plan, connector, options)
SimulateExecution(h, plan, connector, elapsed) ==
    CASE connector = "postgres" ->
            applyPostgresOptimizations(
                h, plan, [GenericSimulate(h, plan, elapsed)
                              EXCEPT !.Connector = "postgres"])
      [] connector = "mongo" ->
            applyMongoOptimizations(
                h, plan, [GenericSimulate(h, plan, elapsed)
                              EXCEPT !.Connector = "mongo"])
      [] OTHER -> GenericSimulate(h, plan, elapsed)

\* ---- the simulator's requests

\* The connectors of the requests; any other name selects the generic
\* simulator.
Connectors == {"postgres", "mongo", "generic"}

\* The wall-clock times a simulation can take, in clock ticks.
MaxElapsed == 1

\* The estimated_rows of the Scans of the requests.
AnnotatedRows == {0, 10, 99, 100, 1000, 2500}

\* A Scan of table tb as the request decodes it, with estimated_rows when
\* annotated.
ScanRequest(tb, annotated, rows) ==
    Let(NewScanNode([h |-> <<>>, idc |-> 0], tb, ""), LAMBDA s :
    IF annotated
    THEN Let(Alloc(s.st, [k |-> "val", v |-> rows]), LAMBDA r :
         [st |-> [r.st EXCEPT !.h[s.ref].EstimatedRows = r.ref], ref |-> s.ref])
    ELSE s)

\* The request's plan is one Scan, of a table of the catalog or of the
\* unknown table x, without or with estimated_rows.
ScanPlanInit ==
    \E tb \in {"a", "b", "x"}, annotated \in BOOLEAN, rows \in AnnotatedRows :
        /\ annotated \/ rows = 0
        /\ PlanBuilt(ScanRequest(tb, annotated, rows), TRUE)

\* simulator.SimulateExecution(plan, connector, options), as SimulateHandler
\* calls it, on a plan that is one Scan.
CallSimulate ==
    /\ call.op = "none"
    /\ heap[input].NodeType = "scan"
    /\ heap[input].Children = <<>>
    /\ \E connector \in Connectors, elapsed \in 0..MaxElapsed :
          Returned("simulate",
                   [st |-> Mem, plan |-> NULL, err |-> FALSE, passes |-> 0,
                    explain |-> EmptyExplain,
                    metrics |-> SimulateExecution(heap, input, connector, elapsed)])

\* ------------------------------------- requests with a Filter to push down

\* Column{Table, Name, Alias}
ProjectedColumn(name, alias) == [Table |-> "", Name |-> name, Alias |-> alias]

\* The projection lists of the requests: SELECT *, a column, a column under
\* another column's name, two columns, two columns exchanging their names.
ProjectionLists ==
    { <<ProjectedColumn("*", "")>>,
      <<ProjectedColumn("x", "")>>,
      <<ProjectedColumn("x", "y")>>,
      <<ProjectedColumn("y", "x")>>,
      <<ProjectedColumn("x", ""), ProjectedColumn("y", "")>>,
      <<ProjectedColumn("x", "y"), ProjectedColumn("y", "x")>> }

\* A column of the request's predicate: table qualifier and name.
FilterColumn(table, name) == [table |-> table, name |-> name]

\* Filter(left operator right) over Project(projections, Scan(tb)); right
\* is the literal 1.
FilterOverProject(left, operator, projections, tb) ==
    [over |-> "project", left |-> left, operator |-> operator, right |-> Nil,
     projections |-> projections, tables |-> <<tb>>, joinType |-> ""]

\* Filter(left operator right) over Join(joinType, Scan(l), Scan(r)); right
\* is a column or, when Nil, the literal 1.
FilterOverJoin(left, operator, right, joinType, l, r) ==
    [over |-> "join", left |-> left, operator |-> operator, right |-> right,
     projections |-> <<>>, tables |-> <<l, r>>, joinType |-> joinType]

FilterRequests ==
    {FilterOverProject(FilterColumn("", c), o, pi, tb) :
        c \in {"x", "y"}, o \in {"=", "<"}, pi \in ProjectionLists, tb \in Tables}
    \cup {FilterOverJoin(FilterColumn(t, "x"), o, Nil, jt, ts[1], ts[2]) :
            t \in Tables, o \in {"=", "<"}, jt \in JoinKinds,
            ts \in {<<"a", "b">>, <<"b", "a">>}}
    \cup {FilterOverJoin(FilterColumn(ts[1], "x"), o, FilterColumn(ts[2], "y"),
                         jt, ts[1], ts[2]) :
            o \in {"=", "<"}, jt \in JoinKinds, ts \in {<<"a", "b">>, <<"b", "a">>}}

\* The predicate of a request, built with the expression constructors.
BuildPredicate(st, q) ==
    Let(NewColumnExpression(st, q.left.table, q.left.name), LAMBDA l :
    Let(IF q.right = Nil THEN NewLiteralExpression(l.st, "1")
        ELSE NewColumnExpression(l.st, q.right.table, q.right.name), LAMBDA r :
    Let(NewBinaryOpExpression(r.st, q.operator, l.ref, r.ref), LAMBDA e :
    Alloc(e.st, [k |-> "pred", Expression |-> e.ref]))))

\* The plan of a request, built with the node constructors, children first.
BuildFilterRequest(st, q) ==
    IF q.over = "project"
    THEN Let(NewScanNode(st, q.tables[1], ""), LAMBDA s :
         Let(NewProjectNode(s.st, s.ref, q.projections), LAMBDA p :
         Let(BuildPredicate(p.st, q), LAMBDA pr :
         NewFilterNode(pr.st, p.ref, pr.ref))))
    ELSE Let(NewScanNode(st, q.tables[1], ""), LAMBDA l :
         Let(NewScanNode(l.st, q.tables[2], ""), LAMBDA r :
         Let(BuildJoin(r.st, q.joinType, <<l.ref, r.ref>>), LAMBDA j :
         Let(BuildPredicate(j.st, q), LAMBDA pr :
         NewFilterNode(pr.st, j.ref, pr.ref)))))

FilterPlanInit ==
    \E q \in FilterRequests, decoded \in BOOLEAN :
        PlanBuilt(BuildFilterRequest([h |-> <<>>, idc |-> 0], q), decoded)

\* --------------------------- requests around the operator thresholds

\* The row counts of the catalog's tables: below, at and above the two
\* thresholds of the Join case.
ThresholdRows ==
    {NestedLoopMaxRows - 1, NestedLoopMaxRows, SortMergeMinRows, SortMergeMinRows + 1}

\* The catalog holds a and b.
ThresholdCatalogInit ==
    \E rows \in ThresholdRows \X ThresholdRows :
        /\ arrays = <<PostedColumns, PostedColumns>>
        /\ schemas = <<TableSchema("a", 1, rows[1], PostedIndexes),
                       TableSchema("b", 2, rows[2], PostedIndexes)>>
        /\ tables = [n \in {"a", "b"} |-> IF n = "a" THEN 1 ELSE 2]
        /\ mu = Unlocked
        /\ proc = [p \in Procs |-> Idle]
        /\ issued = 0
        /\ versions = [n \in TableNames |-> <<>>]

\* Joins of two Scans, bare or under a Project, with or without a Filter on
\* the left input.
JoinShapes ==
    LET scans == {Shape("scan", tb, <<>>) : tb \in Tables}
        lefts == scans \cup {Shape("filter", "<", <<s>>) : s \in scans}
        joins == {Shape("join", jt, <<l, r>>) :
                     jt \in JoinKinds, l \in lefts, r \in scans}
    IN  joins \cup {Shape("project", "name", <<j>>) : j \in joins}

\* The plan the join-order phase hands to the selection of the operators.
JoinPlanInit ==
    \E s \in JoinShapes : PlanBuilt(Build([h |-> <<>>, idc |-> 0], s), FALSE)

\* The second phase of applyCostBasedOptimizations:
\* optimizedPlan = cbo.selectPhysicalOperators(optimizedPlan), with the
\* shared catalog.
CallSelectPhysicalOperators ==
    /\ call.op = "none"
    /\ CanRLock(mu)
    /\ Returned("select",
                [st |-> selectPhysicalOperators(Mem, CatalogRows(tables, schemas),
                                                input),
                 plan |-> input, err |-> FALSE, passes |-> 0,
                 explain |-> EmptyExplain])
\* ------------------------------------------------------- specifications

\* No plan call is in progress: the plan variables of a server that only
\* serves catalog requests.
PlanIdle ==
    /\ heap = <<>>
    /\ idCounter = 0
    /\ input = NULL
    /\ call = NoCall
    /\ snapIn = Nil
    /\ snapOut = Nil
    /\ writes = 0
    /\ gen = GenIdle

\* The optimizer on one request plan; the catalog is not called.
Init == PlanInit /\ gen = GenIdle /\ CatalogInit

Next == CallClone \/ CallOptimizeRule \/ CallOptimizeCost \/ OwnerWrite

Spec == Init /\ [][Next]_vars

\* The catalog under concurrent requests.
InitCatalog == PlanIdle /\ CatalogInit

NextCatalog == \E p \in Procs : Invoke(p) \/ Serve(p)

SpecCatalog == InitCatalog /\ [][NextCatalog]_vars

\* The Go scheduler runs every goroutine that can take a step: a request
\* that is being served is not left waiting forever.
FairSpecCatalog == SpecCatalog /\ \A p \in Procs : WF_vars(Serve(p))

\* Optimize requests served at the same time, as far as the id counter goes.
InitIds == PlanIdle /\ CatalogInit

NextIds == \E p \in Handlers : GenLoad(p) \/ GenStore(p) \/ GenFormat(p)

SpecIds == InitIds /\ [][NextIds]_vars


\* The optimizer on one request plan with a rule that returns an error.
InitFailing == PlanInit /\ gen = GenIdle /\ CatalogInit

NextFailing == CallOptimizeRuleFailing \/ CallOptimizeCostFailing

SpecFailing == InitFailing /\ [][NextFailing]_vars

\* The optimizer on a request plan that breaks the arity of a node type.
InitMalformed == MalformedInit /\ gen = GenIdle /\ CatalogInit

NextMalformed == CallOptimizeRule \/ CallOptimizeCost

SpecMalformed == InitMalformed /\ [][NextMalformed]_vars

\* The optimizer and the catalog in one server: catalog requests one after
\* the other, and one optimize request.
InitShared == SharedPlanInit /\ gen = GenIdle /\ SharedCatalogInit

NextShared ==
    \/ Invoke(1)
    \/ Serve(1)
    \/ CallOptimizeCost
    \/ CallOptimizeWithCatalog

SpecShared == InitShared /\ [][NextShared]_vars

\* The plan enumerator on one query over the catalog's tables.
InitEnum ==
    /\ EnumPlanInit
    /\ gen = GenIdle
    /\ EnumCatalogInit
    /\ Len(extractTables(heap, input)) > DPMaxTables =>
          [i \in DOMAIN EnumTables |-> schemas[i].RowCount] \in GreedyRowCounts

NextEnum == CallEnumeratePlans

SpecEnum == InitEnum /\ [][NextEnum]_vars

\* The simulator on a request whose plan is one Scan, next to the catalog.
InitSim == ScanPlanInit /\ gen = GenIdle /\ EnumCatalogInit

NextSim == CallSimulate

SpecSim == InitSim /\ [][NextSim]_vars

\* The rule engine on a request with a Filter over a Project or over a Join.
InitPushdown == FilterPlanInit /\ gen = GenIdle /\ CatalogInit

NextPushdown == CallOptimizeRule \/ CallOptimizeCost

SpecPushdown == InitPushdown /\ [][NextPushdown]_vars

\* The selection of the physical operators on joins of tables whose row
\* counts lie around the thresholds.
InitOperators == JoinPlanInit /\ gen = GenIdle /\ ThresholdCatalogInit

NextOperators == CallSelectPhysicalOperators

SpecOperators == InitOperators /\ [][NextOperators]_vars
\* ------------------------------------------------ properties of the plans

Optimized == call.op \in {"rule", "cost"}

\* C1: for every optimization call (rule or cost strategy) on a well-formed
\* plan, the multiset of Scan table names of the returned plan equals the
\* multiset of Scan table names of the input plan.
ScanMultisetPreserved ==
    Optimized =>
        SameMultiset(ScanTables(heap, call.plan), ScanTables(heap, input))

\* A cost-strategy call on a plan with a join over two different tables, in
\* which the rule engine removed a projection, has returned.
ScanMultisetWitness ==
    /\ call.op = "cost"
    /\ \E i \in DOMAIN call.explain.AppliedRules :
          call.explain.AppliedRules[i] = "ProjectionPushdown"
    /\ Count(ScanTables(heap, input), "a") = 1
    /\ Count(ScanTables(heap, input), "b") = 1
    /\ \E n \in PlanNodes(heap, call.plan) : heap[n].NodeType = "join"

\* C2: optimize (rule or cost strategy) never mutates its input: after the
\* call has returned, every node of the input tree has the id, variant,
\* ordered children, payload, estimates and metadata it had before the call.
InputNotMutated ==
    Optimized => DeepPlan(heap, input) = snapIn

\* An optimize call that rewrote the plan has returned: the returned tree is
\* not the input tree with fresh ids.
InputNotMutatedWitness ==
    /\ Optimized
    /\ Len(call.explain.Steps) > 0
    /\ getPlanSignature(heap, call.plan) # getPlanSignature(heap, input)

Cloned == call.op = "clone"

\* C8: for every plan p, also one whose ids a caller supplied, clone(p) has
\* the plan signature of p and no node id of clone(p) occurs in p.
CloneSignatureAndFreshIds ==
    (Cloned /\ writes = 0) =>
        /\ getPlanSignature(heap, call.plan) = getPlanSignature(heap, input)
        /\ \A i \in DOMAIN PlanIDs(heap, call.plan) :
              Count(PlanIDs(heap, input), PlanIDs(heap, call.plan)[i]) = 0

\* C9: after c = clone(p), a change to a predicate, join condition,
\* expression or metadata map reachable from one of p and c leaves the other
\* as it was, and p and c share no plan node.
CloneOwnsSubstructures ==
    Cloned =>
        /\ DeepPlan(heap, input) = snapIn
        /\ DeepPlan(heap, call.plan) = snapOut
        /\ PlanNodes(heap, input) \cap PlanNodes(heap, call.plan) = {}

\* --------------------------------------------- properties of the catalog

Completed(p, op) == proc[p].op = op /\ proc[p].pc = "idle"

\* What update_stats(rowCount, columnStats) is to make of a table record.
Updated(rec, rowCount, columnStats) ==
    [Name |-> rec.Name, RowCount |-> rowCount, Indexes |-> rec.Indexes,
     Columns |-> [i \in DOMAIN rec.Columns |->
                    IF rec.Columns[i].Name \in DOMAIN columnStats
                    THEN [Name |-> rec.Columns[i].Name,
                          DataType |-> rec.Columns[i].DataType,
                          Nullable |-> rec.Columns[i].Nullable,
                          NDV |-> columnStats[rec.Columns[i].Name].NDV,
                          MinValue |-> columnStats[rec.Columns[i].Name].MinValue,
                          MaxValue |-> columnStats[rec.Columns[i].Name].MaxValue,
                          Histogram |-> columnStats[rec.Columns[i].Name].Histogram,
                          NullCount |-> columnStats[rec.Columns[i].Name].NullCount]
                    ELSE rec.Columns[i]]]

\* The complete records of table name: the ones its completed writes left and
\* the ones the updates now in progress are to leave.
CompleteRecords(name) ==
    {versions[name][k].rec : k \in DOMAIN versions[name]}
    \cup {Updated(proc[q].pre[name], proc[q].rowCount, proc[q].columnStats) :
            q \in {x \in Procs : proc[x].pc = "upd_col" /\ proc[x].name = name}}

\* C3: a reader that works on the value get_table returned, without the lock,
\* observes the complete pre-update or the complete post-update record (the
\* row count and every column's statistics from one version), and the value
\* is not changed by the writer after get_table has returned.
ReadersSeeSnapshots ==
    \A p \in Procs :
        (proc[p].op = "GetTable" /\ proc[p].seen # Nil) =>
            /\ proc[p].seen \in CompleteRecords(proc[p].name)
            /\ proc[p].seen = proc[p].ret

ColumnNamed(rec, col) ==
    rec.Columns[CHOOSE i \in DOMAIN rec.Columns : rec.Columns[i].Name = col]

\* The last write to the table that had returned when p's call started was an
\* update_stats, and no later one has returned by the time p's call returns.
ReadAfterUpdate(p) ==
    /\ proc[p].pc = "idle"
    /\ proc[p].err = ""
    /\ proc[p].startVer > 0
    /\ versions[proc[p].name][proc[p].startVer].by = "update"
    /\ proc[p].endVer = proc[p].startVer

\* C4: after update_stats(t, rc, stats) has returned, every get_table(t) and
\* get_column_stats(t, c) call that starts afterwards returns row_count = rc
\* and the new statistics, until the next successful update_stats on t.
ReadsAfterUpdateSeeIt ==
    \A p \in Procs :
        /\ (proc[p].op = "GetTable" /\ ReadAfterUpdate(p)) =>
              proc[p].ret = versions[proc[p].name][proc[p].startVer].rec
        /\ (proc[p].op = "GetColumnStats" /\ ReadAfterUpdate(p)) =>
              proc[p].res = ColumnNamed(versions[proc[p].name][proc[p].startVer].rec,
                                        proc[p].col)

\* C5: add_table on a catalog that holds the name returns AlreadyExists and
\* leaves the stored tables and the table names as they were; on a catalog
\* without the name it succeeds, and list_tables then holds the name exactly
\* once; of concurrent add_table calls with one name exactly one succeeds.
AddTableContract ==
    /\ \A p \in Procs :
          Completed(p, "AddTable") =>
              IF proc[p].name \in DOMAIN proc[p].pre
              THEN proc[p].err = "AlreadyExists" /\ proc[p].post = proc[p].pre
              ELSE /\ proc[p].err = ""
                   /\ DOMAIN proc[p].post = DOMAIN proc[p].pre \cup {proc[p].name}
                   /\ proc[p].post[proc[p].name]
                        = [Name |-> proc[p].name, RowCount |-> PostedRowCount,
                           Columns |-> PostedColumns, Indexes |-> PostedIndexes]
                   /\ \A n \in DOMAIN proc[p].pre : proc[p].post[n] = proc[p].pre[n]
    /\ \A p \in Procs :
          Completed(p, "GetAllTables") =>
              /\ \A n \in proc[p].known : Count(proc[p].res.names, n) = 1
              /\ \A n \in TableNames : Count(proc[p].res.names, n) <= 1
    /\ \A n \in TableNames :
          LET racing == {p \in Procs : /\ Completed(p, "AddTable")
                                       /\ proc[p].name = n /\ proc[p].absent}
              adds == {i \in DOMAIN versions[n] : versions[n][i].by = "add"}
          IN  /\ Cardinality({p \in racing : proc[p].err = ""}) <= 1
              /\ racing # {} => Cardinality(adds) = 1

\* Two add_table calls with the same new name, started before either had
\* added it, have both returned.
AddTableWitness ==
    \E p \in Procs, q \in Procs :
        /\ p # q
        /\ Completed(p, "AddTable") /\ Completed(q, "AddTable")
        /\ proc[p].name = "u" /\ proc[q].name = "u"
        /\ proc[p].absent /\ proc[q].absent
        /\ proc[p].err = "" /\ proc[q].err = "AlreadyExists"

\* C6: update_stats on an absent table fails with NotFound and changes
\* nothing; on a present table it sets row_count and overwrites the
\* statistics of exactly the columns named in per_column_stats, and leaves
\* the columns, their names and types, the statistics of the other columns,
\* the indexes and every other table as they were.
UpdateStatsFrame ==
    \A p \in Procs :
        Completed(p, "UpdateTableStats") =>
            IF proc[p].name \notin DOMAIN proc[p].pre
            THEN proc[p].err = "NotFound" /\ proc[p].post = proc[p].pre
            ELSE /\ proc[p].err = ""
                 /\ proc[p].post =
                      [n \in DOMAIN proc[p].pre |->
                         IF n = proc[p].name
                         THEN Updated(proc[p].pre[n], proc[p].rowCount,
                                      proc[p].columnStats)
                         ELSE proc[p].pre[n]]

\* An update_stats naming the second column and a column the table does not
\* have has returned on a catalog of two tables.
UpdateStatsWitness ==
    \E p \in Procs :
        /\ Completed(p, "UpdateTableStats")
        /\ proc[p].err = ""
        /\ DOMAIN proc[p].columnStats = {"c2", "zz"}
        /\ DOMAIN proc[p].pre = {"t", "u"}
        /\ proc[p].post[proc[p].name].Columns[2].NDV # NULL
        /\ proc[p].post[proc[p].name].Columns[1].NDV = NULL

\* The catalog call of goroutine p has returned to the handler.
CallReturned(p) == proc[p].pc \in {"idle", "observe"}

AtMostOneLock ==
    \A p \in Procs :
        /\ Held(mu, p) <= 1
        /\ CallReturned(p) => Held(mu, p) = 0

\* C7: every catalog operation holds at most one lock at any time and has
\* released it when it returns, and under every interleaving of concurrent
\* catalog calls every call eventually returns.
LockDiscipline ==
    /\ []AtMostOneLock
    /\ \A p \in Procs : (proc[p].pc # "idle") ~> (proc[p].pc = "idle")

\* A writer waits for the lock while a reader holds it, after another call
\* has already returned.
LockDisciplineWitness ==
    \E p \in Procs, q \in Procs :
        /\ proc[p].pc = "upd_lock"
        /\ proc[q].pc = "get_body"
        /\ Held(mu, q) = 1
        /\ proc[q].op = "EstimateSelectivity"
        /\ issued = MaxCalls

\* --------------------------------------------- properties of the node ids

\* The ids generated so far, handler by handler.
RECURSIVE GeneratedIds(_)
GeneratedIds(p) ==
    IF p > NumHandlers THEN <<>> ELSE gen[p].ids \o GeneratedIds(p + 1)

\* C10: node ids are unique within every tree produced by the constructors,
\* Clone or an optimize call, also when two optimization calls run
\* concurrently: no two id generations in the process yield the same id.
IdsUnique ==
    \A i \in DOMAIN GeneratedIds(1) : Count(GeneratedIds(1), GeneratedIds(1)[i]) = 1
\* ------------------------------------------ properties of the rule engine

ExplainStepsAreSnapshots ==
    (Optimized /\ ~call.err) =>
        /\ Len(call.explain.Steps) = Len(call.trace)
        /\ \A k \in DOMAIN call.explain.Steps :
              /\ Structure(heap, call.explain.Steps[k].BeforePlan)
                   = call.trace[k].before
              /\ Structure(heap, call.explain.Steps[k].AfterPlan)
                   = call.trace[k].after
        /\ \A k \in 1..(Len(call.explain.Steps) - 1) :
              Structure(heap, call.explain.Steps[k].AfterPlan)
                = Structure(heap, call.explain.Steps[k + 1].BeforePlan)

\* A rule of the call returned an error.
RuleFailed == Optimized /\ call.fault # 0 /\ call.applied >= call.fault

Arity(nodeType) ==
    CASE nodeType = "scan" -> 0
      [] nodeType = "join" -> 2
      [] OTHER -> 1

ViolatesI1(h, a) ==
    \E n \in PlanNodes(h, a) : Len(h[n].Children) # Arity(h[n].NodeType)

\* C14: optimize(plan, cost) on a plan that violates I1 (a Join with fewer
\* than two children, a Limit with a count and no child) returns an
\* InvalidArgument error as a value: it never crashes and never returns a plan.
MalformedPlanRejected ==
    (call.op = "cost" /\ ViolatesI1(heap, input)) =>
        /\ ~call.panic
        /\ call.err
        /\ call.plan = NULL

\* A rule-strategy call has returned a plan.
RuleReturned == call.op = "rule" /\ ~call.err /\ ~call.panic /\ call.plan # NULL

\* The node at n is an identity projection Project([*], c).
IsIdentityProjection(h, n) ==
    /\ h[n].NodeType = "project"
    /\ Len(h[n].Children) = 1
    /\ Len(h[n].Projections) = 1
    /\ h[n].Projections[1].Name = "*"

\* C30: the plan the rule engine returns is a fixed point of its rules: it
\* holds no identity projection Project([*], c), and the rule engine run on
\* it again records no applied rule and returns a plan with the same plan
\* signature.
RuleEngineOutputIsFixedPoint ==
    RuleReturned =>
        /\ \A n \in PlanNodes(heap, call.plan) : ~IsIdentityProjection(heap, n)
        /\ \E again \in {OptimizeWithRules(Mem, call.plan)} :
              /\ ~again.err
              /\ again.explain.AppliedRules = <<>>
              /\ again.explain.Steps = <<>>
              /\ getPlanSignature(again.st.h, again.plan)
                   = getPlanSignature(heap, call.plan)

\* A rule-strategy call has returned whose request held an identity
\* projection and a Filter over a Project, and both rules rewrote it.
FixedPointWitness ==
    /\ RuleReturned
    /\ \E n \in PlanNodes(heap, input) : IsIdentityProjection(heap, n)
    /\ \E k \in DOMAIN call.trace : call.trace[k].RuleName = "PredicatePushdown"
    /\ \E k \in DOMAIN call.trace : call.trace[k].RuleName = "ProjectionPushdown"
    /\ Len(call.changes) >= 2

\* ------------------------------------- properties of the cost optimizer

\* A cost-strategy call has returned a plan.
CostReturned == call.op = "cost" /\ ~call.err /\ ~call.panic /\ call.plan # NULL

\* The CostBasedOptimization step of the returned explain: BeforePlan is the
\* plan the rule engine returned, AfterPlan the plan the call returns.
CostStepOf(explain) == explain.Steps[Len(explain.Steps)]

\* The join types whose inputs may change sides.
SymmetricJoinTypes == {"inner", "cross", "full"}

\* The cost of node b with its two children exchanged.
SwappedCost(h, cat, b) ==
    estimateJoinCost(EstimateCost(h, cat, h[b].Children[2]),
                     EstimateCost(h, cat, h[b].Children[1]),
                     EstimateCardinality(h, cat, b))

\* The tree at a is the tree at b, where the children of a join have changed
\* sides only if that made the join cheaper and its type is symmetric.
RECURSIVE SwapsAllowed(_, _, _, _)
SwapsAllowed(h, cat, b, a) ==
    /\ h[a].NodeType = h[b].NodeType
    /\ Len(h[a].Children) = Len(h[b].Children)
    /\ IF h[b].NodeType = "join" /\ Len(h[b].Children) = 2
       THEN /\ h[a].JoinType = h[b].JoinType
            /\ \/ /\ SwapsAllowed(h, cat, h[b].Children[1], h[a].Children[1])
                  /\ SwapsAllowed(h, cat, h[b].Children[2], h[a].Children[2])
               \/ /\ h[b].JoinType \in SymmetricJoinTypes
                  /\ SwappedCost(h, cat, b).TotalCost
                       < EstimateCost(h, cat, b).TotalCost
                  /\ SwapsAllowed(h, cat, h[b].Children[1], h[a].Children[2])
                  /\ SwapsAllowed(h, cat, h[b].Children[2], h[a].Children[1])
       ELSE /\ h[b].NodeType = "scan" => h[a].TableName = h[b].TableName
            /\ \A i \in DOMAIN h[b].Children :
                  SwapsAllowed(h, cat, h[b].Children[i], h[a].Children[i])

\* C15: the join-order pass of a cost-strategy call exchanges the two
\* children of a Join only when the swapped join is strictly cheaper than the
\* current one and the join type is inner, cross or full; a left or right
\* join keeps its children on their sides.
JoinSwapOnlyWhenCheaperAndSymmetric ==
    CostReturned =>
        SwapsAllowed(heap, EmptyCatalog, CostStepOf(call.explain).BeforePlan,
                     call.plan)

\* A cost-strategy call has returned a left join whose two inputs scan
\* different tables: the join-order pass has compared it with its swap.
JoinSwapWitness ==
    /\ CostReturned
    /\ \E n \in PlanNodes(heap, call.plan) :
          /\ heap[n].NodeType = "join"
          /\ heap[n].JoinType = "left"
          /\ ScanTables(heap, heap[n].Children[1])
               # ScanTables(heap, heap[n].Children[2])

\* The root of the tree at a is Join(inner, Scan(l), Scan(r)).
IsInnerJoinOf(h, a, l, r) ==
    /\ a # NULL
    /\ h[a].NodeType = "join"
    /\ h[a].JoinType = "inner"
    /\ Len(h[a].Children) = 2
    /\ h[h[a].Children[1]].NodeType = "scan"
    /\ h[h[a].Children[1]].TableName = l
    /\ h[h[a].Children[2]].NodeType = "scan"
    /\ h[h[a].Children[2]].TableName = r

\* plan.Metadata[key] = value
HasMetadata(h, a, key, value) ==
    /\ h[a].Metadata # NULL
    /\ key \in DOMAIN h[h[a].Metadata].m
    /\ h[h[a].Metadata].m[key] = value

\* C16: with small (100 rows) and big (1,000,000 rows) in the catalog,
\* cost-based optimization of Join(inner, Scan(big), Scan(small)) returns a
\* Join whose left child is Scan(small), stamped physical_operator hash_join
\* with build_side left.
SmallBuildsLeft ==
    (/\ call.op \in {"cost", "catalog"}
     /\ IsInnerJoinOf(heap, input, "big", "small")
     /\ CatalogRows(tables, schemas)["small"] = SmallRows
     /\ CatalogRows(tables, schemas)["big"] = BigRows)
    => /\ IsInnerJoinOf(heap, call.plan, "small", "big")
       /\ HasMetadata(heap, call.plan, "physical_operator", "hash_join")
       /\ HasMetadata(heap, call.plan, "build_side", "left")

\* C17: a cost-strategy optimize call takes the row count of every Scan from
\* the shared catalog as it stands when the call is made: each Scan of the
\* returned plan over a table of the catalog is stamped with that table's
\* row count, also after requests have added tables or updated statistics.
CostReadsSharedCatalog ==
    [][(call.op = "none" /\ call'.op = "cost" /\ call'.plan # NULL) =>
         \A n \in PlanNodes(heap', call'.plan) :
            (heap'[n].NodeType = "scan" /\ heap'[n].TableName \in DOMAIN tables)
            => /\ heap'[n].EstimatedRows # NULL
               /\ heap'[heap'[n].EstimatedRows].v
                    = CatalogRows(tables, schemas)[heap'[n].TableName]]_vars

\* The node at n carries the estimates the cost model gives for the tree
\* below it.
Stamped(h, cat, n) ==
    /\ h[n].EstimatedRows # NULL
    /\ h[n].EstimatedCost # NULL
    /\ h[h[n].EstimatedRows].v = EstimateCost(h, cat, n).Cardinality
    /\ h[h[n].EstimatedRows].v = EstimateCardinality(h, cat, n)
    /\ h[h[n].EstimatedCost].v = EstimateCost(h, cat, n).TotalCost

\* C18: when a cost-strategy call returns, every node of the returned plan
\* carries estimated_rows and estimated_cost, equal to the cost model's
\* cardinality and total cost of that node's subtree of the returned tree,
\* and the final cost written into the CostBasedOptimization step is the
\* root's estimated_cost (as the step prints it, with two decimals).
EstimatesMatchFinalTree ==
    CostReturned =>
        /\ \A n \in PlanNodes(heap, call.plan) : Stamped(heap, EmptyCatalog, n)
        /\ CostStepOf(call.explain).RuleName = "CostBasedOptimization"
        /\ CostStepOf(call.explain).Description[2]
             = Format2(heap[heap[call.plan].EstimatedCost].v)

\* A cost-strategy call has returned a plan of several nodes that the rule
\* engine rewrote, with a join stamped with a physical operator.
EstimatesWitness ==
    /\ CostReturned
    /\ Len(call.explain.Steps) >= 2
    /\ \E n \in PlanNodes(heap, call.plan) :
          /\ heap[n].NodeType = "join"
          /\ "physical_operator" \in DOMAIN heap[heap[n].Metadata].m
          /\ heap[heap[n].EstimatedCost].v
               > heap[heap[heap[n].Children[1]].EstimatedCost].v

\* The operator the Join rule gives for the cardinalities of the two inputs.
ExpectedJoinOperator(leftCard, rightCard) ==
    CASE leftCard < NestedLoopMaxRows /\ rightCard < NestedLoopMaxRows ->
            "nested_loop_join"
      [] leftCard > SortMergeMinRows /\ rightCard > SortMergeMinRows ->
            "sort_merge_join"
      [] OTHER -> "hash_join"

\* The Join at n is stamped as the rule says for the cardinalities of its
\* inputs under the catalog cat.
JoinStamped(h, cat, n) ==
    LET leftCard == EstimateCardinality(h, cat, h[n].Children[1])
        rightCard == EstimateCardinality(h, cat, h[n].Children[2])
        operator == ExpectedJoinOperator(leftCard, rightCard)
        m == h[h[n].Metadata].m
    IN  /\ HasMetadata(h, n, "physical_operator", operator)
        /\ "build_side" \in DOMAIN m <=> operator = "hash_join"
        /\ operator = "hash_join" =>
              HasMetadata(h, n, "build_side",
                          IF leftCard < rightCard THEN "left" ELSE "right")

\* The selection of the physical operators has run on the plan.
OperatorsSelected ==
    call.op \in {"select", "catalog"} /\ ~call.err /\ ~call.panic /\ call.plan # NULL

\* C29: after the selection of the physical operators every Join carries
\* one physical_operator: nested_loop_join when both inputs have fewer than
\* 1000 estimated rows, sort_merge_join when both have more than 1,000,000,
\* hash_join otherwise; build_side is present iff the operator is hash_join,
\* and is left when the left input's cardinality is strictly smaller than
\* the right's, right otherwise.
JoinOperatorByCardinality ==
    OperatorsSelected =>
        \A n \in PlanNodes(heap, call.plan) :
            heap[n].NodeType = "join" =>
                JoinStamped(heap, CatalogRows(tables, schemas), n)

\* --------------------------------------------- properties of the enumerator

\* EnumeratePlans has returned a result of the dynamic-programming path.
DPReturned ==
    /\ call.op = "enum"
    /\ ~call.err
    /\ call.enum.EnumStrategy = "dynamic_programming"

\* C19: for an input plan over 2 to 4 tables with a connected join graph, the
\* enumerator's best_plan is dp[full_mask]: its Scans cover every table of
\* the input exactly once; an entry for n-1 tables is never the best_plan.
BestPlanCoversAllTables ==
    DPReturned =>
        /\ Len(ScanTables(heap, call.enum.BestPlan))
             = Len(extractTables(heap, input))
        /\ \A i \in DOMAIN extractTables(heap, input) :
              Count(ScanTables(heap, call.enum.BestPlan),
                    extractTables(heap, input)[i]) = 1

\* The estimates of every join tree over the tables of mask that can be built
\* from bipartitions joined by an edge, both orders of the two sides.
RECURSIVE SearchSpace(_, _, _, _)
SearchSpace(cat, joinGraph, tbls, mask) ==
    IF popcount(mask) = 1
    THEN {estimateScanCost(cat, [TableName |-> maskToTables(mask, tbls)[1]])}
    ELSE UNION
           { IF findJoinEdge(l, BitXor(mask, l), joinGraph, tbls) = Nil
             THEN {}
             ELSE { estimateJoinCost(
                        lc, rc,
                        JoinCardinality(
                            findJoinEdge(l, BitXor(mask, l), joinGraph, tbls).JoinType,
                            lc.Cardinality, rc.Cardinality)) :
                    lc \in SearchSpace(cat, joinGraph, tbls, l),
                    rc \in SearchSpace(cat, joinGraph, tbls, BitXor(mask, l)) }
             : l \in {m \in 1..(mask - 1) : BitAnd(m, mask) = m} }

\* The least total cost in the search space of the input plan.
OracleCost(h, cat, plan) ==
    Let(SearchSpace(cat, buildJoinGraph(h, cat, plan, extractTables(h, plan)),
                    extractTables(h, plan),
                    (2 ^ Len(extractTables(h, plan))) - 1), LAMBDA space :
    (CHOOSE c \in space : \A d \in space : c.TotalCost <= d.TotalCost).TotalCost)

\* C20: for every enumeration over at most 4 tables, best_cost is the least
\* total cost over the whole search space of the dynamic programming (every
\* join tree over all tables built from bipartitions joined by an edge, both
\* child orders), and best_cost is the total cost of best_plan.
BestCostIsSearchSpaceMinimum ==
    DPReturned =>
        /\ call.enum.BestCost
             = OracleCost(heap, CatalogRows(tables, schemas), input)
        /\ call.enum.BestCost
             = EstimateCost(heap, CatalogRows(tables, schemas),
                            call.enum.BestPlan).TotalCost

\* The Joins of the plan rooted at a.
JoinNodes(h, a) == {n \in PlanNodes(h, a) : h[n].NodeType = "join"}

\* A Join without a matching edge: it has no condition, or the two sides of
\* its condition do not name two tables of tbls.
NoMatchingEdge(h, tbls, join) ==
    \/ h[join].JoinCondition = NULL
    \/ ~contains(tbls, extractTableFromExpression(
                           h, h[h[join].JoinCondition].Left))
    \/ ~contains(tbls, extractTableFromExpression(
                           h, h[h[join].JoinCondition].Right))
    \/ extractTableFromExpression(h, h[h[join].JoinCondition].Left)
         = extractTableFromExpression(h, h[h[join].JoinCondition].Right)

\* EnumeratePlans has returned, with a result or an error, for an input over
\* 2 to DPMaxTables tables in which some Join has no matching edge.
ReturnedWithoutEdge ==
    /\ call.op = "enum"
    /\ Len(extractTables(heap, input)) \in 2..DPMaxTables
    /\ \E j \in JoinNodes(heap, input) :
          NoMatchingEdge(heap, extractTables(heap, input), j)

\* C21: enumerating a plan over 2 to 4 tables in which some Join has no
\* matching edge succeeds: no error is returned, and best_plan covers every
\* table of the input.
NoEdgeFallsBackToDefault ==
    ReturnedWithoutEdge =>
        /\ ~call.err
        /\ \A i \in DOMAIN extractTables(heap, input) :
              Count(ScanTables(heap, call.enum.BestPlan),
                    extractTables(heap, input)[i]) = 1

\* EnumeratePlans has returned a result.
EnumResult == call.op = "enum" /\ ~call.err

AllPlansHaveDistinctSignatures ==
    EnumResult =>
        \A i, j \in DOMAIN call.enum.AllPlans :
            i # j => getPlanSignature(heap, call.enum.AllPlans[i])
                       # getPlanSignature(heap, call.enum.AllPlans[j])

\* The tables the two sides of the condition of a Join name.
ConditionTables(h, join) ==
    IF h[join].JoinCondition = NULL THEN {}
    ELSE {extractTableFromExpression(h, h[h[join].JoinCondition].Left),
          extractTableFromExpression(h, h[h[join].JoinCondition].Right)}

\* built is a left or right join made from the edge of the Join original of
\* the input: it has the type of original, and its condition names the
\* tables the condition of original names.
BuiltFromOuterEdge(h, original, built) ==
    /\ h[original].JoinType \in {"left", "right"}
    /\ h[built].JoinType = h[original].JoinType
    /\ ConditionTables(h, original) # {}
    /\ ConditionTables(h, built) = ConditionTables(h, original)

\* The tables of the condition are below built on the side on which they are
\* below original.
SidesKept(h, original, built) ==
    \A t \in ConditionTables(h, original), side \in 1..2 :
        planContainsTable(h, h[original].Children[side], t)
            => planContainsTable(h, h[built].Children[side], t)

\* C27: no plan the enumerator returns holds a left or right join built from
\* an edge of the input whose children are exchanged, relative to the Join of
\* the input, while its join type is the same.
OuterJoinsKeepTheirSides ==
    EnumResult =>
        \A i \in DOMAIN call.enum.AllPlans :
            \A built \in JoinNodes(heap, call.enum.AllPlans[i]),
               original \in JoinNodes(heap, input) :
                BuiltFromOuterEdge(heap, original, built)
                    => SidesKept(heap, original, built)

\* ---------------------------------------------- properties of the simulator

\* C24: for a plan that is one Scan(t), with or without estimated_rows, and
\* for every connector, the rows_returned of the simulation is the cost
\* model's cardinality of the Scan: the catalog's row count of t, or 1000
\* when the catalog does not hold t.
SimulatedScanRowsAreCardinality ==
    call.op = "simulate" =>
        call.metrics.RowsReturned
            = EstimateCardinality(heap, CatalogRows(tables, schemas), input)

\* ------------------------------------- properties of predicate pushdown

\* The column name of a column expression's value, with or without table
\* qualifier.
ColumnNameOf(value) ==
    CHOOSE c \in ColumnNames :
        value = c \/ \E q \in Qualifiers : value = q \o "." \o c

\* The column expressions of a deep expression.
RECURSIVE ColumnsOf(_)
ColumnsOf(e) ==
    IF e = Nil THEN {}
    ELSE (IF e.Type = "column" THEN {e.Value} ELSE {})
         \cup ColumnsOf(e.Left) \cup ColumnsOf(e.Right)

\* The projections give an output column referenced by the predicate its
\* name: Column has no expression, so a projection computes nothing and
\* renames with its alias.
Renames(projections, predicate) ==
    \E i \in DOMAIN projections :
        /\ projections[i].Alias # ""
        /\ projections[i].Alias
             \in {ColumnNameOf(v) : v \in ColumnsOf(predicate.Expression)}

\* The deep plan v is Filter(p, Project(pi, c)).
IsFilterOverProject(v) ==
    /\ v # Nil
    /\ v.NodeType = "filter"
    /\ Len(v.Children) = 1
    /\ v.Children[1].NodeType = "project"

\* A rule-strategy call has returned on a request Filter(p, Project(pi, c)).
PushdownOverProject ==
    /\ call.op = "rule" /\ ~call.err /\ call.plan # NULL
    /\ IsFilterOverProject(snapIn)

\* C25: PredicatePushdown turns Filter(p, Project(pi, c)) into
\* Project(pi, Filter(p, c)) only when the projections pi do not rename or
\* compute a column p references; when they do, the Filter stays above the
\* Project.
FilterPushedOnlyBelowPlainProject ==
    PushdownOverProject =>
        IF Renames(snapIn.Children[1].Projections, snapIn.Predicate)
        THEN /\ IsFilterOverProject(snapOut)
             /\ snapOut.Predicate = snapIn.Predicate
             /\ snapOut.Children[1].Projections = snapIn.Children[1].Projections
        ELSE \/ /\ snapOut.NodeType = "project"
                /\ snapOut.Projections = snapIn.Children[1].Projections
                /\ snapOut.Children[1].NodeType = "filter"
                /\ snapOut.Children[1].Predicate = snapIn.Predicate
             \/ /\ isRedundantProjection(snapIn.Children[1].Projections)
                /\ snapOut.NodeType = "filter"
                /\ snapOut.Predicate = snapIn.Predicate
                /\ snapOut.Children[1].NodeType = "scan"

\* The tables whose columns the deep expression e references.
TablesOf(e) ==
    {CHOOSE q \in Qualifiers : \E c \in ColumnNames : v = q \o "." \o c :
        v \in {w \in ColumnsOf(e) :
                 \E q \in Qualifiers, c \in ColumnNames : w = q \o "." \o c}}

\* The tables scanned in the deep plan v.
RECURSIVE ScannedIn(_)
ScannedIn(v) ==
    IF v = Nil THEN {}
    ELSE (IF v.NodeType = "scan" THEN {v.TableName} ELSE {})
         \cup UNION {ScannedIn(v.Children[i]) : i \in DOMAIN v.Children}

\* A rule-strategy call has returned on a request Filter(p, Join(l, r)).
PushdownOverJoin ==
    /\ call.op = "rule" /\ ~call.err /\ call.plan # NULL
    /\ snapIn.NodeType = "filter"
    /\ Len(snapIn.Children) = 1
    /\ snapIn.Children[1].NodeType = "join"
    /\ TablesOf(snapIn.Predicate.Expression) # {}

\* The deep plan v is Filter(p, c) with the predicate p.
IsFilterWith(v, predicate) ==
    v # Nil /\ v.NodeType = "filter" /\ v.Predicate = predicate

\* C26: for a Filter directly above a Join whose predicate references
\* columns of one side only, the rule engine returns the Join with that
\* Filter below it on that side; a Filter whose predicate references columns
\* of both sides stays above the Join.
FilterPushedToItsJoinSide ==
    PushdownOverJoin =>
        LET join == snapIn.Children[1]
            refs == TablesOf(snapIn.Predicate.Expression)
            onLeft == refs \subseteq ScannedIn(join.Children[1])
            onRight == refs \subseteq ScannedIn(join.Children[2])
        IN  CASE onLeft /\ ~onRight ->
                    /\ snapOut.NodeType = "join"
                    /\ IsFilterWith(snapOut.Children[1], snapIn.Predicate)
              [] onRight /\ ~onLeft ->
                    /\ snapOut.NodeType = "join"
                    /\ IsFilterWith(snapOut.Children[2], snapIn.Predicate)
              [] OTHER ->
                    /\ IsFilterWith(snapOut, snapIn.Predicate)
                    /\ snapOut.Children[1].NodeType = "join"

\* The plan signature of a deep plan: getPlanSignature on the value.
RECURSIVE SignatureOf(_), SignatureOfChildren(_, _)
SignatureOf(v) ==
    IF v = Nil THEN <<"nil">>
    ELSE <<v.NodeType>>
         \o (IF v.TableName # "" THEN <<":", v.TableName>> ELSE <<>>)
         \o SignatureOfChildren(v.Children, 1)

SignatureOfChildren(children, i) ==
    IF i > Len(children) THEN <<>>
    ELSE <<"(">> \o SignatureOf(children[i]) \o <<")">>
         \o SignatureOfChildren(children, i + 1)

\* The deep plan v holds a node a rule rewrites: a Filter directly over a
\* Project, or an identity projection.
RECURSIVE HasRewritableNode(_)
HasRewritableNode(v) ==
    /\ v # Nil
    /\ \/ IsFilterOverProject(v)
       \/ /\ v.NodeType = "project"
          /\ Len(v.Children) = 1
          /\ isRedundantProjection(v.Projections)
       \/ \E i \in DOMAIN v.Children : HasRewritableNode(v.Children[i])

\* The steps of a trace that a rule of the rule list reported; the step of
\* the cost phase is recorded whatever the phase did.
RuleSteps(trace) ==
    {k \in DOMAIN trace : \E r \in DOMAIN Rules : trace[k].RuleName = Rules[r]}

\* C28: whenever a rule reports changed = true, and so a step is recorded,
\* the plan after the rule has another plan signature than the plan before
\* it; finding a predicate that could be pushed, without rewriting the
\* tree, records no step.
ChangedMeansRewritten ==
    (Optimized /\ ~call.err) =>
        /\ \A k \in RuleSteps(call.trace) :
              SignatureOf(call.trace[k].before) # SignatureOf(call.trace[k].after)
        /\ ~HasRewritableNode(snapIn) => RuleSteps(call.trace) = {}

\* A call has returned whose passes recorded a step of PredicatePushdown and
\* a step of ProjectionPushdown.
ChangedWitness ==
    /\ Optimized /\ ~call.err
    /\ \E k \in DOMAIN call.trace : call.trace[k].RuleName = "PredicatePushdown"
    /\ \E k \in DOMAIN call.trace : call.trace[k].RuleName = "ProjectionPushdown"
====
